---- MODULE Spec2Model ----
(***************************************************************************)
(* A model of the dotnet encoder (encoders/base.py, encoders/dotnet.py):   *)
(* the RangeSetting configuration and value checks, the registry and       *)
(* web-config settings with their value encoders, the WebConfig aggregate  *)
(* setting and the Encoder that composes them.                             *)
(*                                                                         *)
(* Python values are tagged records [t, n]: t is the Python type ("int",   *)
(* "bool", "str", "none"), n the number an int or a bool holds and s the  *)
(* characters of a str.  The numbers of the model are integers; Python     *)
(* floats are not modelled.  A dict is a function on its keys, a list a    *)
(* sequence, and a text a sequence of tokens (see Text below).             *)
(* A call's outcome is a record whose field err names the exception class  *)
(* raised ("" when the call returns).                                      *)
(***************************************************************************)
EXTENDS Integers, Sequences, FiniteSets, TLC

VARIABLES
    rs_class,     \* SpecRange: the class attributes of the RangeSetting subclass
    rs_config,    \* SpecRange: the config dictionary given to __init__
    rs_self,      \* SpecRange: the instance __init__ produced, or its exception
    rs_call,      \* SpecRange: the last validate_value call and its outcome
    enc_config,   \* the config dictionary given to Encoder.__init__
    encoder,      \* the Encoder __init__ produced, or its exception
    call,         \* the last call of an operation and its outcome
    system        \* the registry and web configuration the scripts run on

vars == <<rs_class, rs_config, rs_self, rs_call, enc_config, encoder, call, system>>

\* the variables of SpecRange, and those of the Encoder's specifications
rs_vars == <<rs_class, rs_config, rs_self, rs_call>>
enc_vars == <<enc_config, encoder, call, system>>

\* a call r followed by more: an exception r raised is handed to Fail (it
\* propagates, or an except clause turns it into another), a result to Then
Try(r, Fail(_), Then(_)) == IF r.err # "" THEN Fail(r.err) ELSE Then(r)

----------------------------------------------------------------------------
(* Python values *)

None == [t |-> "none", n |-> 0, s |-> << >>]

StrVal(chars) == [t |-> "str", n |-> 0, s |-> chars]

\* a str that is no number
NonNumeric == StrVal(<<"a", "b", "c">>)

IntVal(i) == [t |-> "int", n |-> i, s |-> << >>]

\* True and False: the ints 1 and 0 of type bool
BoolVal(b) == [t |-> "bool", n |-> IF b THEN 1 ELSE 0, s |-> << >>]

\* isinstance(v, (int, float)): bool is a subclass of int
IsNumber(v) == v.t \in {"int", "bool"}

\* the truth value Python's `or` and `if` take of v
Truthy(v) ==
    CASE v.t = "none" -> FALSE
      [] v.t = "str" -> TRUE
      [] OTHER -> v.n # 0

\* Python's a % b on integers, b # 0: the result has the sign of b
PyMod(a, b) ==
    IF b > 0 THEN a % b ELSE 0 - ((0 - a) % (0 - b))

\* dict.get(key, default)
DictGet(d, key, default) ==
    IF key \in DOMAIN d THEN d[key] ELSE default

\* what a call raised: no value returned
Failed(err) == [err |-> err, val |-> None]

\* d[key] = v, as the dict it leaves
DictSet(d, key, v) ==
    [k \in DOMAIN d \cup {key} |-> IF k = key THEN v ELSE d[k]]

----------------------------------------------------------------------------
(* Bounds of the model *)

\* numbers offered as min, max and step run over 0..MaxNum (and -1 for step)
MaxNum == 3

\* the settings a configuration of the Encoder requests, at most
MaxSettings == 3

\* the records of an aggregate value and the entries of a record, at most
MaxRecords == 2
MaxEntries == 2

\* the settings a configuration requests when every name and option is tried
MaxRequested == 2

\* the calls made on one Encoder, one after the other
MaxCalls == 3

Nums == 0 .. MaxNum

----------------------------------------------------------------------------
(* encoders/base.py: Setting and RangeSetting *)

SettingConfigException == "SettingConfigException"
SettingRuntimeException == "SettingRuntimeException"
EncoderConfigException == "EncoderConfigException"
EncoderRuntimeException == "EncoderRuntimeException"
NotImplementedError == "NotImplementedError"

\* Setting.allowed_options after RangeSetting.__init__ has updated the set
RangeSetting_allowed_options == {"default", "min", "max", "step"}

\* Setting.check_config: every option of the config must be an allowed one
Setting_check_config(config, allowed_options) ==
    IF \E option \in DOMAIN config : option \notin allowed_options
    THEN SettingConfigException
    ELSE ""

\* the freeze_range test: c.get('min') or c.get('max') or c.get('step')
FreezeOverride(c) ==
    \/ Truthy(DictGet(c, "min", None))
    \/ Truthy(DictGet(c, "max", None))
    \/ Truthy(DictGet(c, "step", None))

\* a wrong RangeCheck: the step is not checked against the size of the range
RangeCheck_no_division(minv, maxv, step) ==
    IF minv = None THEN SettingConfigException
    ELSE IF maxv = None THEN SettingConfigException
    ELSE IF step = None THEN SettingConfigException
    ELSE IF ~IsNumber(minv) THEN SettingConfigException
    ELSE IF ~IsNumber(maxv) THEN SettingConfigException
    ELSE IF ~IsNumber(step) THEN SettingConfigException
    ELSE IF minv.n > maxv.n THEN SettingConfigException
    ELSE IF minv.n # maxv.n /\ step.n < 0 THEN SettingConfigException
    ELSE IF minv.n # maxv.n /\ step.n = 0 THEN SettingConfigException
    ELSE ""

\* RangeSetting.check_config, the checks of the resulting range (min, max and
\* step as configured, else the class attribute)
RangeCheck(minv, maxv, step) ==
    IF minv = None THEN SettingConfigException
    ELSE IF maxv = None THEN SettingConfigException
    ELSE IF step = None THEN SettingConfigException
    ELSE IF ~IsNumber(minv) THEN SettingConfigException
    ELSE IF ~IsNumber(maxv) THEN SettingConfigException
    ELSE IF ~IsNumber(step) THEN SettingConfigException
    ELSE IF minv.n > maxv.n THEN SettingConfigException
    ELSE IF minv.n # maxv.n /\ step.n < 0 THEN SettingConfigException
    ELSE IF minv.n # maxv.n /\ step.n = 0 THEN SettingConfigException
    ELSE IF step.n # 0 /\ PyMod(maxv.n - minv.n, step.n) > 0
         THEN SettingConfigException
    ELSE ""

\* RangeSetting.check_config, "Freeze range for change from config"
FreezeCheck(cls, config) ==
    IF cls.freeze_range
    THEN IF cls.min = None THEN NotImplementedError
         ELSE IF cls.max = None THEN NotImplementedError
         ELSE IF cls.step = None THEN NotImplementedError
         ELSE IF FreezeOverride(config) THEN SettingConfigException
         ELSE ""
    ELSE ""

\* a wrong RelaxCheck: the comparison of max is turned around
RelaxCheck_max_reversed(cls, minv, maxv, step) ==
    IF cls.relaxable = FALSE
    THEN IF cls.min = None THEN NotImplementedError
         ELSE IF minv.n < cls.min.n THEN SettingConfigException
         ELSE IF cls.max = None THEN NotImplementedError
         ELSE IF maxv.n < cls.max.n THEN SettingConfigException
         ELSE IF cls.step = None THEN NotImplementedError
         ELSE IF cls.step.n = 0 THEN "ZeroDivisionError"
         ELSE IF PyMod(step.n, cls.step.n) > 0 THEN SettingConfigException
         ELSE ""
    ELSE ""

\* RangeSetting.check_config, "Relaxation of boundaries"
RelaxCheck(cls, minv, maxv, step) ==
    IF cls.relaxable = FALSE
    THEN IF cls.min = None THEN NotImplementedError
         ELSE IF minv.n < cls.min.n THEN SettingConfigException
         ELSE IF cls.max = None THEN NotImplementedError
         ELSE IF maxv.n > cls.max.n THEN SettingConfigException
         ELSE IF cls.step = None THEN NotImplementedError
         ELSE IF cls.step.n = 0 THEN "ZeroDivisionError"
         ELSE IF PyMod(step.n, cls.step.n) > 0 THEN SettingConfigException
         ELSE ""
    ELSE ""

\* RangeSetting.check_config: the exception it raises, "" when it returns.
\* cls holds the class attributes min, max, step, relaxable, freeze_range.
RangeSetting_check_config(cls, config, allowed_options) ==
    LET minv == DictGet(config, "min", cls.min)
        maxv == DictGet(config, "max", cls.max)
        step == DictGet(config, "step", cls.step)
        base == Setting_check_config(config, allowed_options)
        range == RangeCheck(minv, maxv, step)
        freeze == FreezeCheck(cls, config)
    IN  IF base # "" THEN base
        ELSE IF range # "" THEN range
        ELSE IF freeze # "" THEN freeze
        ELSE RelaxCheck(cls, minv, maxv, step)

\* RangeSetting.__init__: check_config, then min, max, step and default are
\* read from the config, falling back to the class attributes
RangeSetting_init(cls, config, allowed_options) ==
    LET err == RangeSetting_check_config(cls, config, allowed_options)
    IN  IF err # ""
        THEN [err |-> err, min |-> None, max |-> None, step |-> None,
              default |-> None]
        ELSE [err |-> "",
              min |-> DictGet(config, "min", cls.min),
              max |-> DictGet(config, "max", cls.max),
              step |-> DictGet(config, "step", cls.step),
              default |-> DictGet(config, "default", cls.default)]

\* a wrong validate_value: the step requirement is not checked
RangeSetting_validate_value_no_step(self, value) ==
    IF value = None
    THEN [err |-> SettingRuntimeException, val |-> None]
    ELSE IF ~IsNumber(value)
    THEN [err |-> SettingRuntimeException, val |-> None]
    ELSE IF value.n < self.min.n
    THEN [err |-> SettingRuntimeException, val |-> None]
    ELSE IF value.n > self.max.n
    THEN [err |-> SettingRuntimeException, val |-> None]
    ELSE [err |-> "", val |-> value]

\* a wrong validate_value: the lower bound itself is refused
RangeSetting_validate_value_open(self, value) ==
    IF value = None
    THEN [err |-> SettingRuntimeException, val |-> None]
    ELSE IF ~IsNumber(value)
    THEN [err |-> SettingRuntimeException, val |-> None]
    ELSE IF value.n <= self.min.n
    THEN [err |-> SettingRuntimeException, val |-> None]
    ELSE IF value.n > self.max.n
    THEN [err |-> SettingRuntimeException, val |-> None]
    ELSE IF /\ self.min.n < self.max.n
            /\ self.step.n > 0
            /\ PyMod(value.n - self.min.n, self.step.n) # 0
    THEN [err |-> SettingRuntimeException, val |-> None]
    ELSE [err |-> "", val |-> value]

\* RangeSetting.validate_value: the exception raised, or the value returned
RangeSetting_validate_value(self, value) ==
    IF value = None
    THEN [err |-> SettingRuntimeException, val |-> None]
    ELSE IF ~IsNumber(value)
    THEN [err |-> SettingRuntimeException, val |-> None]
    ELSE IF value.n < self.min.n
    THEN [err |-> SettingRuntimeException, val |-> None]
    ELSE IF value.n > self.max.n
    THEN [err |-> SettingRuntimeException, val |-> None]
    ELSE IF /\ self.min.n < self.max.n
            /\ self.step.n > 0
            /\ PyMod(value.n - self.min.n, self.step.n) # 0
    THEN [err |-> SettingRuntimeException, val |-> None]
    ELSE [err |-> "", val |-> value]

----------------------------------------------------------------------------
(* Text.  A text (a Python str holding a script) is a sequence of tokens:   *)
(* the statements of the script, each followed by the newline token NL.     *)
(* The characters of a value inside a statement are kept as a sequence of   *)
(* one-character strings.                                                   *)

Token(cmd, filter, path, name, value) ==
    [cmd |-> cmd, filter |-> filter, path |-> path, name |-> name, value |-> value]

\* "\n"
NL == Token("NL", "", "", "", << >>)

\* a line whose text is kept as it is, with its newline: a line of the
\* `before` and `after` fragments, a bracket of the describe script
RawLine(s) == <<Token("raw", "", "", s, << >>), NL>>

Digits == <<"0", "1", "2", "3", "4", "5", "6", "7", "8", "9">>

IsDigit(c) == \E i \in 1 .. 10 : Digits[i] = c

DigitValue(c) == (CHOOSE i \in 1 .. 10 : Digits[i] = c) - 1

RECURSIVE DecStr(_)
\* str(i) of an int i
DecStr(i) ==
    IF i < 0 THEN <<"-">> \o DecStr(0 - i)
    ELSE IF i < 10 THEN <<Digits[i + 1]>>
    ELSE DecStr(i \div 10) \o <<Digits[(i % 10) + 1]>>

RECURSIVE DigitsValue(_)
DigitsValue(chars) ==
    IF chars = << >> THEN 0
    ELSE 10 * DigitsValue(SubSeq(chars, 1, Len(chars) - 1))
         + DigitValue(chars[Len(chars)])

AllDigits(chars) ==
    /\ chars # << >>
    /\ \A i \in 1 .. Len(chars) : IsDigit(chars[i])

\* whether int(chars) succeeds: an optional sign and decimal digits
IsDecimal(chars) ==
    IF chars # << >> /\ chars[1] = "-"
    THEN AllDigits(Tail(chars))
    ELSE AllDigits(chars)

\* int(chars) of a str that IsDecimal
ParseInt(chars) ==
    IF chars[1] = "-" THEN 0 - DigitsValue(Tail(chars)) ELSE DigitsValue(chars)

\* int(data): the int of a number or of a decimal str; ValueError for any
\* other str, TypeError for None (and for a dict or a list)
PyInt(data) ==
    IF data.t \in {"int", "bool"} THEN [err |-> "", val |-> IntVal(data.n)]
    ELSE IF data.t = "str"
    THEN IF IsDecimal(data.s)
         THEN [err |-> "", val |-> IntVal(ParseInt(data.s))]
         ELSE [err |-> "ValueError", val |-> None]
    ELSE [err |-> "TypeError", val |-> None]

\* IntToStrValueEncoder.encode: str(int(value))
IntToStrValueEncoder_encode(value) == DecStr(value.n)

\* IntToStrValueEncoder.decode: int(data)
IntToStrValueEncoder_decode(data) == PyInt(data)

\* IntToBoolValueEncoder.encode: str(bool(value))
IntToBoolValueEncoder_encode(value) ==
    IF value.n # 0 THEN <<"T", "r", "u", "e">> ELSE <<"F", "a", "l", "s", "e">>

\* IntToBoolValueEncoder.decode: int(data)
IntToBoolValueEncoder_decode(data) == PyInt(data)

\* self.get_value_encoder().encode(value)
ValueEncoder_encode(self, value) ==
    IF self.value_encoder = "IntToBoolValueEncoder"
    THEN IntToBoolValueEncoder_encode(value)
    ELSE IntToStrValueEncoder_encode(value)

\* self.get_value_encoder().decode(data)
ValueEncoder_decode(self, data) ==
    IF self.value_encoder = "IntToBoolValueEncoder"
    THEN IntToBoolValueEncoder_decode(data)
    ELSE IntToStrValueEncoder_decode(data)

----------------------------------------------------------------------------
(* encoders/dotnet.py: the setting classes *)

RegistryPath == "HKLM:\\System\\CurrentControlSet\\Services\\Http\\Parameters"

CachingFilter == "system.webServer/caching"

\* 0xFFFFFFFF, the max of UriScavengerPeriod.  TLC's integers are 32 bits wide,
\* so the model takes the largest of them; no value the model offers is near it.
UriScavengerPeriod_max == 2147483647

\* the class attributes of a setting class; kind tells the family: "registry"
\* (RegistryRangeSetting), "webconfig" (WebConfigRangeSetting) or "aggregate"
\* (WebConfigSetting)
Class(kind, type, range, default, relaxable, freeze_range, value_encoder, path, filter, name_override) ==
    [kind |-> kind, type |-> type, min |-> range[1], max |-> range[2],
     step |-> range[3], default |-> default, relaxable |-> relaxable,
     freeze_range |-> freeze_range, value_encoder |-> value_encoder,
     path |-> path, filter |-> filter, name_override |-> name_override]

BooleanRange == <<IntVal(0), IntVal(1), IntVal(1)>>

UriEnableCacheSetting ==
    Class("registry", "bool", BooleanRange, IntVal(1), TRUE, TRUE,
          "IntToStrValueEncoder", RegistryPath, "", "")

UriScavengerPeriodSetting ==
    Class("registry", "range",
          <<IntVal(10), IntVal(UriScavengerPeriod_max), IntVal(1)>>,
          IntVal(120), FALSE, TRUE,
          "IntToStrValueEncoder", RegistryPath, "", "")

WebConfigCacheEnabledSetting ==
    Class("webconfig", "bool", BooleanRange, IntVal(1), TRUE, TRUE,
          "IntToBoolValueEncoder", "", CachingFilter, "enabled")

WebConfigEnableKernelCacheSetting ==
    Class("webconfig", "bool", BooleanRange, IntVal(1), TRUE, TRUE,
          "IntToBoolValueEncoder", "", CachingFilter, "enableKernelCache")

\* no min, max, step and no value_encoder
WebConfigMaxResponseSizeSetting ==
    Class("webconfig", "range", <<None, None, None>>, IntVal(262144), TRUE, FALSE,
          "", "", CachingFilter, "maxResponseSize")

WebConfigSetting ==
    Class("aggregate", "config_list", <<None, None, None>>, None, TRUE, FALSE,
          "", "", "", "")

\* a class that defines no name: the base classes dotnet.py imports and the
\* intermediate classes it defines
AbstractSetting ==
    Class("abstract", "", <<None, None, None>>, None, TRUE, FALSE, "", "", "", "")

\* the names X for which globals()['XSetting'] is such a class: BaseSetting,
\* BaseRangeSetting, DotnetRangeSetting, RegistryRangeSetting,
\* RegistryBooleanSetting, WebConfigRangeSetting, WebConfigBooleanSetting
AbstractSettingClasses ==
    {"Base", "BaseRange", "DotnetRange", "RegistryRange", "RegistryBoolean",
     "WebConfigRange", "WebConfigBoolean"}

\* globals()['{}Setting'.format(name)] for the concrete setting classes
SettingClasses ==
    [UriEnableCache |-> UriEnableCacheSetting,
     UriScavengerPeriod |-> UriScavengerPeriodSetting,
     WebConfigCacheEnabled |-> WebConfigCacheEnabledSetting,
     WebConfigEnableKernelCache |-> WebConfigEnableKernelCacheSetting,
     WebConfigMaxResponseSize |-> WebConfigMaxResponseSizeSetting,
     WebConfig |-> WebConfigSetting]

\* Setting.allowed_options as the range settings of dotnet.py see it
\* (RangeSetting adds min, max, step; DotnetRangeSetting adds unit)
DotnetRangeSetting_allowed_options == {"default", "min", "max", "step", "unit"}

\* WebConfigSetting.allowed_options
WebConfigSetting_allowed_options == {"path", "values"}

\* an instance of a setting class: its name and what its methods read
Instance(name, cls, err, r) ==
    [name |-> name, err |-> err, kind |-> cls.kind, type |-> cls.type,
     min |-> r.min, max |-> r.max, step |-> r.step, default |-> r.default,
     value_encoder |-> cls.value_encoder, path |-> cls.path,
     filter |-> cls.filter, name_override |-> cls.name_override]

NoRange == [min |-> None, max |-> None, step |-> None, default |-> None]

\* the __init__ of DotnetRangeSetting, RegistryRangeSetting and
\* WebConfigRangeSetting after RangeSetting.__init__ has left r
DotnetRangeSetting_init(name, cls, r) ==
    IF r.err # "" THEN Instance(name, cls, r.err, NoRange)
    ELSE IF cls.value_encoder = "" THEN Instance(name, cls, NotImplementedError, NoRange)
    ELSE IF cls.kind = "registry" /\ cls.path = ""
    THEN Instance(name, cls, NotImplementedError, NoRange)
    ELSE IF cls.kind = "registry" /\ r.default = None
    THEN Instance(name, cls, NotImplementedError, NoRange)
    ELSE IF cls.kind = "webconfig" /\ cls.filter = ""
    THEN Instance(name, cls, NotImplementedError, NoRange)
    ELSE Instance(name, cls, "", r)

\* Setting.check_class_defaults: the class must define name and type
Setting_check_class_defaults(cls) ==
    IF cls.kind = "abstract" THEN NotImplementedError
    ELSE IF cls.type = "" THEN NotImplementedError
    ELSE ""

\* globals()['{}Setting'.format(name)]
SettingClass(name) ==
    IF name \in AbstractSettingClasses THEN AbstractSetting ELSE SettingClasses[name]

\* setting_class(config): the __init__ of the class called `name`.
\* Setting.__init__ runs check_class_defaults before check_config.
Setting_init(name, config) ==
    LET cls == SettingClass(name)
    IN  IF Setting_check_class_defaults(cls) # ""
        THEN Instance(name, cls, Setting_check_class_defaults(cls), NoRange)
        ELSE IF cls.kind = "aggregate"
        THEN Instance(name, cls,
                      Setting_check_config(config, WebConfigSetting_allowed_options),
                      NoRange)
        ELSE DotnetRangeSetting_init(
                 name, cls,
                 RangeSetting_init(cls, config, DotnetRangeSetting_allowed_options))

----------------------------------------------------------------------------
(* encoders/dotnet.py: encode_option and decode_option of the settings *)

ListVal(items) == [t |-> "list", n |-> 0, s |-> << >>, items |-> items]

\* a dict (a function on its keys) and not a number, a str or None
IsDict(x) == "t" \notin DOMAIN x

\* what a call raised, with no text produced
Raised(err) == [err |-> err, out |-> << >>]

\* what decode_multi and decode_option are given: a dict (form "dict") with
\* the entry reg for the registry path and the entry wc for "WebConfig", or a
\* str: the JSON text of such a dict (form "json") or a script (form "script")
DictData(reg, wc) == [form |-> "dict", reg |-> reg, wc |-> wc, text |-> << >>]

NoReg == [present |-> FALSE, d |-> << >>]

\* data.get("WebConfig"): t tells its type ("absent" for None, "dict" or
\* "list") and paths holds, for a dict, its entries [path, filters] in the
\* dict's order (for a list, its items)
NoWc == [t |-> "absent", paths |-> << >>]

\* the truth value of data.get("WebConfig")
WcTruthy(wc) == wc.t # "absent" /\ wc.paths # << >>

ScriptData(text) == [form |-> "script", reg |-> NoReg, wc |-> NoWc, text |-> text]

JsonData(data) == [data EXCEPT !.form = "json"]

\* the dict of fields under one filter of one path, as
\* WebConfigRangeSetting.decode_option is given it
FieldsData(fields) == [form |-> "dict", d |-> fields]

\* RegistryRangeSetting.format_value
RegistryRangeSetting_format_value(self, value) ==
    <<Token("Set-ItemProperty", "", self.path, self.name, value), NL>>

\* DotnetRangeSetting.encode_option, as a registry setting inherits it
RegistryRangeSetting_encode_option(self, value) ==
    Try(RangeSetting_validate_value(self, value), Raised,
        LAMBDA v : [err |-> "",
                    out |-> RegistryRangeSetting_format_value(
                                self, ValueEncoder_encode(self, v.val))])

\* the decoding both decode_option end with: a ValueError of the value
\* encoder becomes a SettingRuntimeException, any other error escapes
DecodeValue(self, value) ==
    Try(ValueEncoder_decode(self, value),
        LAMBDA err : Failed(IF err = "ValueError" THEN SettingRuntimeException ELSE err),
        LAMBDA r : r)

\* a wrong decode_option: the default is returned whatever the data holds
RegistryRangeSetting_decode_option_default(self, data) ==
    IF data.form # "dict" THEN [err |-> "AttributeError", val |-> None]
    ELSE IF ~data.reg.present \/ DOMAIN data.reg.d = {}
    THEN [err |-> EncoderRuntimeException, val |-> None]
    ELSE DecodeValue(self, self.default)

\* RegistryRangeSetting.decode_option
RegistryRangeSetting_decode_option(self, data) ==
    IF data.form # "dict" THEN [err |-> "AttributeError", val |-> None]
    ELSE IF ~data.reg.present \/ DOMAIN data.reg.d = {}
    THEN [err |-> EncoderRuntimeException, val |-> None]
    ELSE DecodeValue(self, DictGet(data.reg.d, self.name, self.default))

\* self.name_override or self.name
NameLocator(self) ==
    IF self.name_override # "" THEN self.name_override ELSE self.name

\* a wrong format_value: the statement names the setting, not the field
\* name_override tells
WebConfigRangeSetting_format_value_plain_name(self, path, value) ==
    <<Token("Set-WebConfigurationProperty", self.filter, path, self.name, value), NL>>

\* WebConfigRangeSetting.format_value
WebConfigRangeSetting_format_value(self, path, value) ==
    <<Token("Set-WebConfigurationProperty", self.filter, path, NameLocator(self),
            value), NL>>

\* WebConfigRangeSetting.encode_option
WebConfigRangeSetting_encode_option(self, path, value) ==
    Try(RangeSetting_validate_value(self, value), Raised,
        LAMBDA v : [err |-> "",
                    out |-> WebConfigRangeSetting_format_value(
                                self, path, ValueEncoder_encode(self, v.val))])

\* a wrong decode_option: a field the data does not hold decodes to the default
WebConfigRangeSetting_decode_option_default(self, data, path) ==
    IF data.form # "dict" THEN [err |-> "TypeError", val |-> None]
    ELSE IF NameLocator(self) \notin DOMAIN data.d
    THEN DecodeValue(self, self.default)
    ELSE DecodeValue(self, data.d[NameLocator(self)])

\* WebConfigRangeSetting.decode_option
WebConfigRangeSetting_decode_option(self, data, path) ==
    IF data.form # "dict" THEN [err |-> "TypeError", val |-> None]
    ELSE IF NameLocator(self) \notin DOMAIN data.d
    THEN [err |-> EncoderRuntimeException, val |-> None]
    ELSE DecodeValue(self, data.d[NameLocator(self)])

----------------------------------------------------------------------------
(* encoders/dotnet.py: WebConfigSetting, the aggregate.  Its value is a     *)
(* list of records {path, values}; values is a dict kept as the sequence    *)
(* of its entries [name, val] in the dict's order, and val is the dict      *)
(* {'value': v}.  encoder_settings is Encoder.settings, the sequence of the *)
(* instances in the order of the configuration.                             *)

Owns(encoder_settings, name) ==
    \E i \in 1 .. Len(encoder_settings) : encoder_settings[i].name = name

\* encoder_settings[name]
Lookup(encoder_settings, name) ==
    encoder_settings[CHOOSE i \in 1 .. Len(encoder_settings) :
                         encoder_settings[i].name = name]

\* setting_instance.validate_value(values_dict[value_name].get('value'))
ValidateEntry(encoder_settings, entry) ==
    IF ~Owns(encoder_settings, entry.name) THEN Failed(EncoderRuntimeException)
    ELSE IF ~IsDict(entry.val) THEN Failed("AttributeError")
    ELSE IF Lookup(encoder_settings, entry.name).kind = "aggregate"
    THEN Failed("TypeError")
    ELSE RangeSetting_validate_value(Lookup(encoder_settings, entry.name),
                                     DictGet(entry.val, "value", None))

RECURSIVE ValidateEntries(_, _, _)
\* the loop over values_dict.keys(), from entry i on: the first exception
ValidateEntries(encoder_settings, entries, i) ==
    IF i > Len(entries) THEN [err |-> "", val |-> None]
    ELSE Try(ValidateEntry(encoder_settings, entries[i]), Failed,
             LAMBDA v : ValidateEntries(encoder_settings, entries, i + 1))

RECURSIVE ValidateRecords(_, _, _)
\* the loop over the records, from record i on: the first exception
ValidateRecords(encoder_settings, records, i) ==
    IF i > Len(records) THEN [err |-> "", val |-> None]
    ELSE IF "values" \notin DOMAIN records[i] THEN Failed("KeyError")
    ELSE Try(ValidateEntries(encoder_settings, records[i].values, 1), Failed,
             LAMBDA v : ValidateRecords(encoder_settings, records, i + 1))

\* a wrong validate_value: a list with no records is accepted
WebConfigSetting_validate_value_accepts_empty(value, encoder_settings) ==
    IF value.t # "list" THEN Failed(EncoderRuntimeException)
    ELSE IF \E i \in 1 .. Len(value.items) :
                DOMAIN value.items[i] \ WebConfigSetting_allowed_options # {}
    THEN Failed(EncoderRuntimeException)
    ELSE Try(ValidateRecords(encoder_settings, value.items, 1), Failed,
             LAMBDA v : [err |-> "", val |-> value])

\* WebConfigSetting.validate_value: the exception raised, or the value
\* returned (unchanged)
WebConfigSetting_validate_value(value, encoder_settings) ==
    IF value.t # "list" THEN Failed(EncoderRuntimeException)
    ELSE IF \E i \in 1 .. Len(value.items) :
                DOMAIN value.items[i] \ WebConfigSetting_allowed_options # {}
    THEN Failed(EncoderRuntimeException)
    ELSE IF Len(value.items) = 0 THEN Failed(EncoderRuntimeException)
    ELSE Try(ValidateRecords(encoder_settings, value.items, 1), Failed,
             LAMBDA v : [err |-> "", val |-> value])

\* 'Import-Module WebAdministration\n'
ImportModule == <<Token("Import-Module", "", "", "WebAdministration", << >>), NL>>

\* setting.encode_option(path_values_dict['path'], val.get('value', val) if
\* isinstance(val, dict) else val), with its `except KeyError`
EncodeEntry(encoder_settings, record, entry) ==
    LET setting == Lookup(encoder_settings, entry.name)
        v == IF IsDict(entry.val) THEN DictGet(entry.val, "value", None)
             ELSE entry.val
    IN  IF ~Owns(encoder_settings, entry.name) THEN Raised(EncoderRuntimeException)
        ELSE IF "path" \notin DOMAIN record THEN Raised(EncoderRuntimeException)
        ELSE IF setting.kind = "webconfig"
        THEN WebConfigRangeSetting_encode_option(setting, record.path, v)
        ELSE IF setting.kind = "registry" THEN Raised("TypeError")
        ELSE Raised(EncoderRuntimeException)

RECURSIVE EncodeEntries(_, _, _, _)
\* the loop over values_dict.items(), from entry i on, appending to encoded
EncodeEntries(encoder_settings, record, i, encoded) ==
    IF i > Len(record.values) THEN [err |-> "", out |-> encoded]
    ELSE Try(EncodeEntry(encoder_settings, record, record.values[i]), Raised,
             LAMBDA e : EncodeEntries(encoder_settings, record, i + 1,
                                      encoded \o e.out))

RECURSIVE EncodeRecords(_, _, _, _)
\* the loop over the records, from record i on, appending to encoded
EncodeRecords(encoder_settings, records, i, encoded) ==
    IF i > Len(records) THEN [err |-> "", out |-> encoded]
    ELSE Try(EncodeEntries(encoder_settings, records[i], 1, encoded), Raised,
             LAMBDA e : EncodeRecords(encoder_settings, records, i + 1, e.out))

\* a wrong encode_option: the statements are not preceded by the import
WebConfigSetting_encode_option_no_import(value, encoder_settings) ==
    IF value = None THEN [err |-> "", out |-> << >>]
    ELSE Try(WebConfigSetting_validate_value(value, encoder_settings), Raised,
             LAMBDA v : EncodeRecords(encoder_settings, v.val.items, 1, << >>))

\* WebConfigSetting.encode_option
WebConfigSetting_encode_option(value, encoder_settings) ==
    IF value = None THEN [err |-> "", out |-> << >>]
    ELSE Try(WebConfigSetting_validate_value(value, encoder_settings), Raised,
             LAMBDA v : EncodeRecords(encoder_settings, v.val.items, 1, ImportModule))

\* one entry of a record's values: name: {'value': v}
Entry(name, v) == [name |-> name, val |-> [value |-> v]]

RECURSIVE DecodeSettings(_, _, _, _, _)
\* the loop over the owned WebConfigRangeSettings whose filter is filt, from
\* setting i on: cur_decode['values'].update(...)
DecodeSettings(encoder_settings, filt, path, i, entries) ==
    IF i > Len(encoder_settings) THEN [err |-> "", entries |-> entries]
    ELSE IF /\ encoder_settings[i].kind = "webconfig"
            /\ encoder_settings[i].filter = filt.filter
    THEN Try(WebConfigRangeSetting_decode_option(
                 encoder_settings[i], FieldsData(filt.fields), path),
             LAMBDA err : [err |-> err, entries |-> << >>],
             LAMBDA r : DecodeSettings(
                            encoder_settings, filt, path, i + 1,
                            Append(entries, Entry(encoder_settings[i].name, r.val))))
    ELSE DecodeSettings(encoder_settings, filt, path, i + 1, entries)

RECURSIVE DecodeFilters(_, _, _, _)
\* the loop over pathval.items(), from filter j on
DecodeFilters(encoder_settings, pathval, j, entries) ==
    IF j > Len(pathval.filters) THEN [err |-> "", entries |-> entries]
    ELSE Try(DecodeSettings(encoder_settings, pathval.filters[j], pathval.path,
                            1, entries),
             LAMBDA err : [err |-> err, entries |-> << >>],
             LAMBDA r : DecodeFilters(encoder_settings, pathval, j + 1, r.entries))

RECURSIVE DecodePaths(_, _, _, _)
\* the loop over wc.items(), from path k on
DecodePaths(encoder_settings, paths, k, decoded_values) ==
    IF k > Len(paths) THEN [err |-> "", val |-> ListVal(decoded_values)]
    ELSE Try(DecodeFilters(encoder_settings, paths[k], 1, << >>), Failed,
             LAMBDA r : DecodePaths(
                            encoder_settings, paths, k + 1,
                            Append(decoded_values,
                                   [path |-> paths[k].path, values |-> r.entries])))

\* WebConfigSetting.decode_option
WebConfigSetting_decode_option(data, encoder_settings) ==
    IF data.form # "dict" THEN [err |-> "AttributeError", val |-> None]
    ELSE IF ~WcTruthy(data.wc)
    THEN [err |-> "", val |-> None]
    ELSE IF data.wc.t # "dict" THEN [err |-> EncoderRuntimeException, val |-> None]
    ELSE DecodePaths(encoder_settings, data.wc.paths, 1, << >>)

----------------------------------------------------------------------------
(* The system the script is run on (outside the repository): the registry   *)
(* key and the web configuration, in the shape the describe script reports  *)
(* them (test_dotnet.py, describe_data): numbers as JSON numbers, the       *)
(* boolean fields of a section as JSON booleans.                            *)

\* the value a statement's -Value text sets
Literal(chars) ==
    IF IsDecimal(chars) THEN IntVal(ParseInt(chars))
    ELSE IF chars = <<"T", "r", "u", "e">> THEN BoolVal(TRUE)
    ELSE IF chars = <<"F", "a", "l", "s", "e">> THEN BoolVal(FALSE)
    ELSE StrVal(chars)

\* Set-ItemProperty -Path path -Name name -Value value
SetItemProperty(reg, name, v) ==
    [present |-> TRUE, d |-> DictSet(reg.d, name, v)]

\* the fields of a section with one of them set
SetField(filters, filter, name, v) ==
    IF \E j \in 1 .. Len(filters) : filters[j].filter = filter
    THEN [j \in 1 .. Len(filters) |->
            IF filters[j].filter = filter
            THEN [filters[j] EXCEPT !.fields = DictSet(@, name, v)]
            ELSE filters[j]]
    ELSE Append(filters, [filter |-> filter, fields |-> DictSet(<< >>, name, v)])

\* Set-WebConfigurationProperty -Filter filter -PSPath path -Name name -Value value
SetWebConfigurationProperty(wc, filter, path, name, v) ==
    LET paths == wc.paths
    IN  [t |-> "dict",
         paths |->
            IF \E k \in 1 .. Len(paths) : paths[k].path = path
            THEN [k \in 1 .. Len(paths) |->
                    IF paths[k].path = path
                    THEN [paths[k] EXCEPT !.filters = SetField(@, filter, name, v)]
                    ELSE paths[k]]
            ELSE Append(paths, [path |-> path,
                                filters |-> SetField(<< >>, filter, name, v)])]

RECURSIVE ApplyScript(_, _, _)
\* the system after the statements of text, from token i on, have run
ApplyScript(sys, text, i) ==
    IF i > Len(text) THEN sys
    ELSE LET tok == text[i]
         IN  IF tok.cmd = "Set-ItemProperty"
             THEN ApplyScript(
                      [sys EXCEPT !.reg = SetItemProperty(@, tok.name, Literal(tok.value))],
                      text, i + 1)
             ELSE IF tok.cmd = "Set-WebConfigurationProperty"
             THEN ApplyScript(
                      [sys EXCEPT !.wc = SetWebConfigurationProperty(
                                             @, tok.filter, tok.path, tok.name,
                                             Literal(tok.value))],
                      text, i + 1)
             ELSE ApplyScript(sys, text, i + 1)

----------------------------------------------------------------------------
(* encoders/dotnet.py: Encoder *)

\* Encoder.settings before Encoder.__init__ has run
NoEncoder == [err |-> "unbuilt", settings |-> << >>, before |-> << >>, after |-> << >>]

\* the Encoder whose __init__ raised
NotConstructed(err) ==
    [err |-> err, settings |-> << >>, before |-> << >>, after |-> << >>]

RECURSIVE Encoder_init_settings(_, _, _)
\* the loop of Encoder.__init__ over the requested settings, from i on:
\* config['settings'] is the sequence of its entries [name, config]
Encoder_init_settings(config, i, settings) ==
    IF i > Len(config.settings)
    THEN [err |-> "", settings |-> settings,
          before |-> config.before, after |-> config.after]
    ELSE IF config.settings[i].name \notin DOMAIN SettingClasses \cup AbstractSettingClasses
    THEN NotConstructed(EncoderConfigException)
    ELSE Try(Setting_init(config.settings[i].name, config.settings[i].config),
             NotConstructed,
             LAMBDA s : Encoder_init_settings(config, i + 1, Append(settings, s)))

\* Encoder.__init__
Encoder_init(config) == Encoder_init_settings(config, 1, << >>)

\* the names of the settings table
SettingNames(self) == {self.settings[i].name : i \in 1 .. Len(self.settings)}

\* setting.encode_option(set_val, ...) as _encode_multi calls it
EncodeSetting(self, setting, set_val) ==
    IF setting.type = "config_list"
    THEN WebConfigSetting_encode_option(set_val, self.settings)
    ELSE IF setting.kind = "webconfig" THEN Raised("TypeError")
    ELSE RegistryRangeSetting_encode_option(setting, set_val)

RECURSIVE EncodeSettings(_, _, _, _)
\* the loop of _encode_multi over self.settings.items(), from setting i on
EncodeSettings(self, values, i, encoded) ==
    IF i > Len(self.settings) THEN [err |-> "", out |-> encoded]
    ELSE IF DictGet(values, self.settings[i].name, None) = None
    THEN EncodeSettings(self, values, i + 1, encoded)
    ELSE Try(EncodeSetting(self, self.settings[i],
                           DictGet(values, self.settings[i].name, None)),
             Raised,
             LAMBDA e : EncodeSettings(self, values, i + 1, encoded \o e.out))

\* a wrong _encode_multi: the `after` fragment is left out
Encoder__encode_multi_without_after(self, values) ==
    Try(EncodeSettings(self, values, 1, self.before), Raised,
        LAMBDA e : IF DOMAIN values \ SettingNames(self) # {}
                   THEN Raised(EncoderRuntimeException)
                   ELSE [err |-> "", out |-> e.out])

\* Encoder._encode_multi
Encoder__encode_multi(self, values) ==
    Try(EncodeSettings(self, values, 1, self.before), Raised,
        LAMBDA e : IF DOMAIN values \ SettingNames(self) # {}
                   THEN Raised(EncoderRuntimeException)
                   ELSE [err |-> "", out |-> e.out \o self.after])

\* setting.decode_option(data, ...) as _decode_multi calls it
DecodeSetting(self, setting, data) ==
    IF setting.type = "config_list"
    THEN WebConfigSetting_decode_option(data, self.settings)
    ELSE RegistryRangeSetting_decode_option(setting, data)

RECURSIVE DecodeAll(_, _, _, _)
\* the loop of _decode_multi over the settings that are no
\* WebConfigRangeSetting, from setting i on; decoded is a dict
DecodeAll(self, data, i, decoded) ==
    IF i > Len(self.settings) THEN [err |-> "", val |-> decoded]
    ELSE IF self.settings[i].kind = "webconfig"
    THEN DecodeAll(self, data, i + 1, decoded)
    ELSE Try(DecodeSetting(self, self.settings[i], data),
             LAMBDA err : [err |-> err, val |-> << >>],
             LAMBDA r : DecodeAll(self, data, i + 1,
                                  DictSet(decoded, self.settings[i].name, r.val)))

\* Encoder._decode_multi
Encoder__decode_multi(self, data) == DecodeAll(self, data, 1, << >>)

\* json.loads(data) of a str: the dict a JSON text holds; a script is no JSON
json_loads(data) ==
    IF data.form = "json"
    THEN [err |-> "", val |-> [data EXCEPT !.form = "dict"]]
    ELSE [err |-> "JSONDecodeError", val |-> data]

\* a wrong decode_multi: a str is handed to _decode_multi as it is
Encoder_decode_multi_unparsed(self, data) == Encoder__decode_multi(self, data)

\* Encoder.decode_multi: a str is parsed first
Encoder_decode_multi(self, data) ==
    Try(IF data.form # "dict" THEN json_loads(data) ELSE [err |-> "", val |-> data],
        LAMBDA err : [err |-> err, val |-> << >>],
        LAMBDA parsed : Encoder__decode_multi(self, parsed.val))

----------------------------------------------------------------------------
(* encoders/dotnet.py: encode_describe.  adjust_driver_config is a dict      *)
(* that may hold the key "WebConfig" with the dict {'value': records}, each  *)
(* record a dict with a path.  The lines of the describe script are tokens:  *)
(* a read statement carries the path (and filter) it reads, "path" opens     *)
(* the block of a path, the other lines are raw.                             *)

\* the truth value of adjust_config.get("WebConfig"): a dict that is not empty
HasWebConfig(adjust_config) ==
    "WebConfig" \in DOMAIN adjust_config /\ adjust_config["WebConfig"] # << >>

\* RegistryRangeSetting.encode_describe
RegistryRangeSetting_encode_describe(self) ==
    <<Token("Get-ItemProperty", "", self.path, "", << >>)>>

\* WebConfigRangeSetting.encode_describe
WebConfigRangeSetting_encode_describe(self, path) ==
    <<Token("Get-WebConfiguration", self.filter, path, "", << >>)>>

RECURSIVE DescribeFilters(_, _, _, _, _)
\* the loop of WebConfigSetting.encode_describe over encoder_settings.values()
\* for one record, from setting i on: one read statement per filter not done
DescribeFilters(encoder_settings, path, i, filters_done, lines) ==
    IF i > Len(encoder_settings) THEN lines
    ELSE IF encoder_settings[i].kind # "webconfig"
    THEN DescribeFilters(encoder_settings, path, i + 1, filters_done, lines)
    ELSE IF encoder_settings[i].filter \in filters_done
    THEN DescribeFilters(encoder_settings, path, i + 1, filters_done, lines)
    ELSE DescribeFilters(
             encoder_settings, path, i + 1,
             filters_done \cup {encoder_settings[i].filter},
             lines \o WebConfigRangeSetting_encode_describe(encoder_settings[i], path)
                   \o <<NL>>)

RECURSIVE DescribePathValues(_, _, _, _)
\* the loop over webconfig['value'], from record k on: filters_done starts
\* empty for every record
DescribePathValues(encoder_settings, value, k, lines) ==
    IF k > Len(value) THEN lines
    ELSE DescribePathValues(
             encoder_settings, value, k + 1,
             lines \o <<Token("path", "", value[k].path, "", << >>), NL>>
                   \o DescribeFilters(encoder_settings, value[k].path, 1, {}, << >>)
                   \o RawLine("}"))

\* WebConfigSetting.encode_describe
WebConfigSetting_encode_describe(adjust_driver_config, encoder_settings) ==
    IF ~HasWebConfig(adjust_driver_config) THEN << >>
    ELSE IF \/ Len(adjust_driver_config["WebConfig"].value) < 1
            \/ Len(encoder_settings) < 1
    THEN << >>
    ELSE RawLine("\"WebConfig\" = @{")
         \o DescribePathValues(encoder_settings,
                               adjust_driver_config["WebConfig"].value, 1, << >>)
         \o RawLine("}")

\* dict(filter(lambda kv: isinstance(kv[1], WebConfigRangeSetting), ...))
WebConfigRangeSettings(settings) ==
    SelectSeq(settings, LAMBDA setting : setting.kind = "webconfig")

RECURSIVE EncodeDescribeSettings(_, _, _, _, _)
\* the loop of Encoder.encode_describe over self.settings.values(), from
\* setting i on
EncodeDescribeSettings(self, adjust_driver_config, i, reg_paths_done, script) ==
    IF i > Len(self.settings) THEN script
    ELSE IF self.settings[i].type = "config_list"
    THEN EncodeDescribeSettings(
             self, adjust_driver_config, i + 1, reg_paths_done,
             script \o WebConfigSetting_encode_describe(
                           adjust_driver_config, WebConfigRangeSettings(self.settings)))
    ELSE IF self.settings[i].kind = "webconfig"
    THEN EncodeDescribeSettings(self, adjust_driver_config, i + 1, reg_paths_done,
                                script)
    ELSE IF self.settings[i].path \in reg_paths_done
    THEN EncodeDescribeSettings(self, adjust_driver_config, i + 1, reg_paths_done,
                                script)
    ELSE EncodeDescribeSettings(
             self, adjust_driver_config, i + 1,
             reg_paths_done \cup {self.settings[i].path},
             script \o RegistryRangeSetting_encode_describe(self.settings[i])
                    \o <<NL>>)

\* Encoder.encode_describe
Encoder_encode_describe(self, adjust_driver_config) ==
    EncodeDescribeSettings(
        self, adjust_driver_config, 1, {},
        (IF HasWebConfig(adjust_driver_config) THEN ImportModule ELSE << >>)
            \o RawLine("@{"))
    \o RawLine("} | ConvertTo-Json")

----------------------------------------------------------------------------
(* encoders/dotnet.py: describe.  A description is a dict, kept as a record; *)
(* the map Encoder.describe returns is a dict from names to descriptions.   *)

\* the class attribute unit of the setting classes (RangeSetting.unit is '')
SettingUnits ==
    [UriEnableCache |-> "", UriScavengerPeriod |-> "seconds",
     WebConfigCacheEnabled |-> "", WebConfigEnableKernelCache |-> "",
     WebConfigMaxResponseSize |-> "bytes"]

\* RegistryRangeSetting.describe and WebConfigRangeSetting.describe: descr of
\* the pair (self.name, descr) they return
RangeSetting_describe(self) ==
    [type |-> self.type, min |-> self.min, max |-> self.max, step |-> self.step,
     unit |-> SettingUnits[self.name], default |-> self.default]

\* settings.update(pair) with the pair (name, descr) itself as the argument:
\* update takes its argument as a sequence of pairs, and the first element
\* of (name, descr) is the name, a str of more (or fewer) than two characters
DictUpdateWithPair(settings, name, descr) == [err |-> "ValueError", val |-> << >>]

\* settings.update((pair,)): settings[name] = descr
DictUpdateWithPairs(settings, name, descr) ==
    [err |-> "", val |-> DictSet(settings, name, descr)]

\* the values of the record WebConfigSetting.describe() shows as a pattern
PlaceholderValues ==
    [k \in {"[WebConfig_SETTING_NAME", "..."} |->
        IF k = "..." THEN "..." ELSE "[WebConfig_SETTING_VALUE]"]

\* WebConfigSetting.describe() without adjust_config: a dict, no pair
WebConfigSetting_describe_pattern ==
    [type |-> "config_list",
     value |-> <<[path |-> "[WEB_CONFIG_PATH]", values |-> PlaceholderValues]>>]

RECURSIVE DescribeNested(_, _, _)
\* wc_settings_described: the descriptions of the owned web-config range
\* settings, from setting i on
DescribeNested(encoder_settings, i, described) ==
    IF i > Len(encoder_settings) THEN described
    ELSE IF encoder_settings[i].kind = "webconfig"
    THEN DescribeNested(encoder_settings, i + 1,
                        DictSet(described, encoder_settings[i].name,
                                RangeSetting_describe(encoder_settings[i])))
    ELSE DescribeNested(encoder_settings, i + 1, described)

\* WebConfigSetting.describe(adjust_config, encoder_settings) with an
\* adjust_config that is not empty: descr of the pair it returns
WebConfigSetting_describe(adjust_config, encoder_settings) ==
    [type |-> "config_list",
     value |->
        IF ~HasWebConfig(adjust_config)
        THEN <<[path |-> "[WEB_CONFIG_PATH]",
                values |-> DescribeNested(encoder_settings, 1, << >>)]>>
        ELSE [k \in 1 .. Len(adjust_config["WebConfig"].value) |->
                [path |-> adjust_config["WebConfig"].value[k].path,
                 values |-> DescribeNested(encoder_settings, 1, << >>)]]]

RECURSIVE DescribeFlat(_, _, _)
\* Encoder.describe without adjust_config: the loop over the settings, from
\* setting i on, settings.update(setting.describe())
DescribeFlat(self, i, settings) ==
    IF i > Len(self.settings) THEN [err |-> "", val |-> settings]
    ELSE IF self.settings[i].type = "config_list"
    THEN DescribeFlat(self, i + 1,
                      DictSet(DictSet(settings, "type",
                                      WebConfigSetting_describe_pattern.type),
                              "value", WebConfigSetting_describe_pattern.value))
    ELSE Try(DictUpdateWithPair(settings, self.settings[i].name,
                                RangeSetting_describe(self.settings[i])),
             Failed,
             LAMBDA r : DescribeFlat(self, i + 1, r.val))

RECURSIVE DescribeRegistry(_, _, _)
\* Encoder.describe with adjust_config, "handle flat settings": the loop over
\* the registry settings, from setting i on
DescribeRegistry(self, i, settings) ==
    IF i > Len(self.settings) THEN settings
    ELSE IF self.settings[i].kind = "registry"
    THEN DescribeRegistry(
             self, i + 1,
             DictUpdateWithPairs(settings, self.settings[i].name,
                                 RangeSetting_describe(self.settings[i])).val)
    ELSE DescribeRegistry(self, i + 1, settings)

\* Encoder.describe
Encoder_describe(self, adjust_config) ==
    IF adjust_config = << >> THEN DescribeFlat(self, 1, << >>)
    ELSE IF Owns(self.settings, "WebConfig")
    THEN DictUpdateWithPairs(DescribeRegistry(self, 1, << >>), "WebConfig",
                             WebConfigSetting_describe(adjust_config, self.settings))
    ELSE [err |-> "", val |-> DescribeRegistry(self, 1, << >>)]

----------------------------------------------------------------------------
(* encoders/dotnet.py: encode_multi with an expected_type, and the helper   *)
(* encode of encoders/base.py.  An expected_type is 'str', 'list' or 'dict' *)
(* ("None" is None).                                                        *)

ExpectedTypes == {"None", "str", "list", "dict"}

\* what the typed calls raised: no text and no lines returned
RaisedTyped(err) == [err |-> err, out |-> << >>, val |-> None]

RECURSIVE str_split(_, _, _, _)
\* encoded.split('\n'): the lines of the text from token i on, `line` being
\* the tokens read since the last newline
str_split(text, i, line, lines) ==
    IF i > Len(text) THEN Append(lines, line)
    ELSE IF text[i] = NL THEN str_split(text, i + 1, << >>, Append(lines, line))
    ELSE str_split(text, i + 1, Append(line, text[i]), lines)

\* Encoder.encode_multi
Encoder_encode_multi(self, values, expected_type) ==
    Try(Encoder__encode_multi(self, values), RaisedTyped,
        LAMBDA e :
            IF expected_type \in {"None", "str"}
            THEN [err |-> "", out |-> e.out, val |-> None]
            ELSE IF expected_type = "list"
            THEN [err |-> "", out |-> << >>, val |-> str_split(e.out, 1, << >>, << >>)]
            ELSE RaisedTyped(EncoderConfigException))

\* validate_config of a dict: the exception it raises, "" when it returns
validate_config(config) ==
    IF config.name = "" THEN EncoderConfigException ELSE ""

\* load_encoder of a str: the exception it raises, "" when it returns the
\* class Encoder of encoders/dotnet.py
load_encoder(encoder_) ==
    IF encoder_ = "dotnet" THEN "" ELSE "ImportError"

\* `expected_type and ...`: whether an expected_type counts as given
Given(expected_type) == expected_type # "None"

\* {name: values.get(name, {}).get('value') for name in settings.keys()}
Encodable(settings, values) ==
    [name \in DOMAIN settings |->
        DictGet(DictGet(values, name, << >>), "value", None)]

\* what the helper raised
HelperRaised(err) == [err |-> err, out |-> << >>, val |-> None, names |-> {}]

\* the helper from the Encoder it has constructed on
encode_with(encoder_, config, values, expected_type, adjust_config) ==
    Try(Encoder_describe(encoder_, adjust_config), HelperRaised,
        LAMBDA settings :
            IF Given(expected_type) /\ Given(config.expected_type)
            THEN HelperRaised(EncoderConfigException)
            ELSE [names |-> DOMAIN settings.val] @@
                 Encoder_encode_multi(
                     encoder_, Encodable(settings.val, values),
                     IF Given(expected_type) THEN expected_type
                     ELSE config.expected_type))

\* encode(config, values, expected_type, adjust_config) of encoders/base.py:
\* the text or the lines, and the set of the names encoded
encode(config, values, expected_type, adjust_config) ==
    IF validate_config(config) # "" THEN HelperRaised(validate_config(config))
    ELSE IF load_encoder(config.name) # "" THEN HelperRaised(load_encoder(config.name))
    ELSE Try(Encoder_init(config), HelperRaised,
             LAMBDA encoder_ :
                 encode_with(encoder_, config, values, expected_type, adjust_config))

----------------------------------------------------------------------------
(* The state of the Encoder's specifications *)

\* a call: the operation, the setting and path it is about (encode_option and
\* decode_option), the value or values given, the data decoded, the system
\* as it was when the call was made, and the outcome: the exception raised
\* ("" when the call returned), the text returned and the value decoded
Call(op, setting, path, value, data, prior, err, out, val) ==
    [op |-> op, setting |-> setting, path |-> path, value |-> value,
     data |-> data, prior |-> prior, err |-> err, out |-> out, val |-> val]

\* a system with no registry key and no web configuration
NoSystem == DictData(NoReg, NoWc)

\* the call c with its outcome r: the exception, and the text or the value
Returned(c, r) ==
    [c EXCEPT !.err = r.err,
              !.out = IF "out" \in DOMAIN r THEN r.out ELSE @,
              !.val = IF "val" \in DOMAIN r THEN r.val ELSE @]

NoEncoderCall == Call("none", "", "", None, NoSystem, NoSystem, "", << >>, None)

----------------------------------------------------------------------------
(* SpecRange: one RangeSetting subclass is constructed from a config and its *)
(* validate_value is called.                                                 *)

\* a set's functions: every dictionary with keys among `keys`
Dicts(keys, vals) == UNION {[S -> vals] : S \in SUBSET keys}

\* the values a config offers for min, max and step
ConfigValues == {None, NonNumeric} \cup {IntVal(i) : i \in (0 - 1) .. MaxNum}

\* class attributes (min, max, step) of a subclass: a well-formed range with a
\* positive step, as every class of dotnet.py has, or none at all
ClassRanges ==
    {<<None, None, None>>} \cup
    {<<IntVal(a), IntVal(b), IntVal(s)>> : a \in Nums, b \in Nums, s \in 1 .. MaxNum}

WellFormed(r) ==
    \/ r = <<None, None, None>>
    \/ /\ r[1].n <= r[2].n
       /\ (r[2].n - r[1].n) % r[3].n = 0

RangeClasses ==
    {[min |-> r[1], max |-> r[2], step |-> r[3], default |-> None,
      relaxable |-> rx, freeze_range |-> fr] :
        r \in {x \in ClassRanges : WellFormed(x)},
        rx \in BOOLEAN, fr \in BOOLEAN}

RangeConfigs ==
    Dicts({"min", "max", "step"}, ConfigValues) \cup {[colour |-> IntVal(1)]}

\* the values offered to validate_value
OfferedValues ==
    {None, NonNumeric} \cup {IntVal(i) : i \in (0 - MaxNum) .. (2 * MaxNum)}

NoClass ==
    [min |-> None, max |-> None, step |-> None, default |-> None,
     relaxable |-> TRUE, freeze_range |-> FALSE]

Unbuilt ==
    [err |-> "unbuilt", min |-> None, max |-> None, step |-> None,
     default |-> None]

NoCall == [called |-> FALSE, value |-> None, res |-> [err |-> "", val |-> None]]

RangeInit ==
    /\ rs_class = NoClass
    /\ rs_config = << >>
    /\ rs_self = Unbuilt
    /\ rs_call = NoCall
    /\ enc_config = << >>
    /\ encoder = NoEncoder
    /\ call = NoEncoderCall
    /\ system = NoSystem

\* setting = SomeRangeSetting(config)
RangeConstruct ==
    /\ rs_self = Unbuilt
    /\ \E cls \in RangeClasses, config \in RangeConfigs :
          /\ rs_class' = cls
          /\ rs_config' = config
          /\ rs_self' = RangeSetting_init(cls, config, RangeSetting_allowed_options)
    /\ UNCHANGED <<rs_call, enc_vars>>

\* setting.validate_value(value)
RangeValidate(value) ==
    /\ rs_self.err = ""
    /\ rs_call' = [called |-> TRUE, value |-> value,
                   res |-> RangeSetting_validate_value(rs_self, value)]
    /\ UNCHANGED <<rs_class, rs_config, rs_self, enc_vars>>

RangeNext ==
    \/ RangeConstruct
    \/ \E value \in OfferedValues : RangeValidate(value)

SpecRange == RangeInit /\ [][RangeNext]_vars

----------------------------------------------------------------------------
(* Inputs of the Encoder's operations *)

\* the paths of the web configuration (test_dotnet.py, describe_data)
Paths == {"MACHINE/WEBROOT/APPHOST", "MACHINE/WEBROOT/APPHOST/TestSite"}

\* the names a configuration may request: the setting classes and a name
\* that is no class
RequestedNames == DOMAIN SettingClasses \cup {"Bogus"}

RECURSIVE NameSeqs(_)
\* the sequences of n distinct requested names, or fewer
NameSeqs(n) ==
    IF n = 0 THEN {<< >>}
    ELSE LET shorter == NameSeqs(n - 1)
         IN  shorter \cup
             {Append(q, name) : q \in {x \in shorter : Len(x) = n - 1},
                                name \in RequestedNames}

Distinct(q) == \A i, j \in 1 .. Len(q) : i # j => q[i] # q[j]

\* config['settings']: the k-th requested setting, if any, is configured with
\* a default of its own, the others with nothing
Requested(names, k) ==
    [i \in 1 .. Len(names) |->
        [name |-> names[i],
         config |-> IF i = k THEN [default |-> IntVal(0)] ELSE << >>]]

EncoderConfigs ==
    {[settings |-> Requested(names, k),
      before |-> IF wrapped THEN RawLine("# begin") ELSE << >>,
      after |-> IF wrapped THEN RawLine("# end") ELSE << >>] :
        names \in {q \in NameSeqs(MaxSettings) : Distinct(q)},
        k \in 0 .. 1, wrapped \in BOOLEAN}

\* the records {path, values} offered to encode_multi: one entry each, of a
\* web-config setting, a registry setting or no setting, valid (1) or not (2)
EncoderRecords ==
    {[path |-> "MACHINE/WEBROOT/APPHOST", values |-> <<Entry(name, v)>>] :
        name \in {"WebConfigCacheEnabled", "UriEnableCache", "Bogus"},
        v \in {IntVal(1), IntVal(2)}}
    \cup {[path |-> "MACHINE/WEBROOT/APPHOST/TestSite",
           values |-> <<Entry("WebConfigCacheEnabled", IntVal(0))>>]}

\* the values encode_multi is offered for the key `name`
ValueChoices(name) ==
    IF name = "WebConfig"
    THEN {None, IntVal(1), ListVal(<< >>)} \cup {ListVal(<<r>>) : r \in EncoderRecords}
    ELSE IF name \in {"UriEnableCache", "UriScavengerPeriod"}
    THEN {None, IntVal(1), IntVal(10)}
    ELSE {None, IntVal(1)}

RECURSIVE ValueMaps(_, _)
\* the dicts with keys among keys[i..], each key with one of its values
ValueMaps(keys, i) ==
    IF i > Len(keys) THEN {<< >>}
    ELSE LET rest == ValueMaps(keys, i + 1)
         IN  rest \cup {DictSet(m, keys[i], v) : m \in rest, v \in ValueChoices(keys[i])}

\* the names of a settings table, in its order
NameSeq(settings) == [i \in 1 .. Len(settings) |-> settings[i].name]

\* the dicts found under the registry path: none, an empty one, one with no
\* setting, and some with settings
RegistryEntries ==
    {NoReg} \cup
    {[present |-> TRUE, d |-> d] :
        d \in {<< >>,
               [PSPath |-> StrVal(<<"p">>)],
               [PSPath |-> StrVal(<<"p">>), UriEnableCache |-> IntVal(0)],
               [UriEnableCache |-> NonNumeric],
               [UriEnableCache |-> IntVal(0), UriScavengerPeriod |-> IntVal(30)]}}

\* the fields of the caching section of one path
SectionFields ==
    {[enabled |-> BoolVal(TRUE), enableKernelCache |-> BoolVal(TRUE)],
     [enabled |-> BoolVal(FALSE)],
     [enabled |-> NonNumeric, enableKernelCache |-> BoolVal(TRUE)]}

Section(path, fields) ==
    [path |-> path, filters |-> <<[filter |-> CachingFilter, fields |-> fields]>>]

\* what is found under "WebConfig"
WebConfigEntries ==
    {NoWc,
     [t |-> "dict", paths |-> << >>],
     [t |-> "list", paths |-> <<Section("MACHINE/WEBROOT/APPHOST", << >>)>>]} \cup
    {[t |-> "dict", paths |-> <<Section("MACHINE/WEBROOT/APPHOST", f)>>] :
        f \in SectionFields} \cup
    {[t |-> "dict",
      paths |-> <<Section("MACHINE/WEBROOT/APPHOST", f),
                  Section("MACHINE/WEBROOT/APPHOST/TestSite",
                          [enabled |-> BoolVal(FALSE),
                           enableKernelCache |-> BoolVal(FALSE)])>>] :
        f \in SectionFields}

\* the describe data decode_multi is offered, as a dict and as its JSON text
DecodeInputs ==
    LET dicts == {DictData(reg, wc) : reg \in RegistryEntries, wc \in WebConfigEntries}
    IN  dicts \cup {JsonData(d) : d \in dicts}

----------------------------------------------------------------------------
(* Spec: an Encoder is constructed from a configuration, and encode_multi   *)
(* and decode_multi are called on it.                                       *)

Init ==
    /\ rs_class = NoClass
    /\ rs_config = << >>
    /\ rs_self = Unbuilt
    /\ rs_call = NoCall
    /\ enc_config = << >>
    /\ encoder = NoEncoder
    /\ call = NoEncoderCall
    /\ system = NoSystem

\* encoder = Encoder(config)
EncoderConstruct ==
    /\ encoder = NoEncoder
    /\ \E config \in EncoderConfigs :
          /\ enc_config' = config
          /\ encoder' = Encoder_init(config)
    /\ UNCHANGED <<call, system, rs_vars>>

\* encoder.encode_multi(values).  The Encoder keeps no state between calls:
\* a behaviour makes one call, and may decode the script it returned.
EncodeMulti ==
    /\ encoder.err = ""
    /\ call.op = "none"
    /\ \E values \in ValueMaps(NameSeq(encoder.settings) \o <<"Bogus">>, 1) :
          call' = Returned(Call("encode_multi", "", "", values, NoSystem, NoSystem,
                                "", << >>, << >>),
                           Encoder__encode_multi(encoder, values))
    /\ UNCHANGED <<enc_config, encoder, system, rs_vars>>

\* encoder.decode_multi(data) of describe data
DecodeMulti ==
    /\ encoder.err = ""
    /\ call.op = "none"
    /\ \E data \in DecodeInputs :
          call' = Returned(Call("decode_multi", "", "", << >>, data, NoSystem,
                                "", << >>, << >>),
                           Encoder_decode_multi(encoder, data))
    /\ UNCHANGED <<enc_config, encoder, system, rs_vars>>

\* encoder.decode_multi(script) of the script encode_multi has just returned
DecodeMultiScript ==
    /\ encoder.err = ""
    /\ call.op = "encode_multi"
    /\ call.err = ""
    /\ call' = Returned(Call("decode_multi", "", "", call.value,
                             ScriptData(call.out), NoSystem, "", call.out, << >>),
                        Encoder_decode_multi(encoder, ScriptData(call.out)))
    /\ UNCHANGED <<enc_config, encoder, system, rs_vars>>

Next ==
    \/ EncoderConstruct
    \/ EncodeMulti
    \/ DecodeMulti
    \/ DecodeMultiScript

Spec == Init /\ [][Next]_vars

----------------------------------------------------------------------------
(* SpecRoundTrip: an Encoder is constructed, one of its settings encodes a  *)
(* value, the statements are run on the system, and the setting decodes     *)
(* the system's state (or is handed the script itself).                     *)

\* the setting classes that can be constructed, in the order of dotnet.py
ClassOrder ==
    <<"UriEnableCache", "UriScavengerPeriod", "WebConfigCacheEnabled",
      "WebConfigEnableKernelCache", "WebConfig">>

\* the configurations that request some of the classes, each with no options
RoundTripConfigs ==
    {[settings |-> Requested(SelectSeq(ClassOrder, LAMBDA name : name \in owned), 0),
      before |-> << >>, after |-> << >>] :
        owned \in SUBSET {ClassOrder[i] : i \in 1 .. Len(ClassOrder)}}

\* a system nothing has been set on: the registry key reports only its
\* PSPath, the caching section of the server its fields
FreshSystem ==
    DictData([present |-> TRUE, d |-> [PSPath |-> StrVal(<<"p">>)]],
             [t |-> "dict",
              paths |-> <<Section("MACHINE/WEBROOT/APPHOST",
                                  [enabled |-> BoolVal(TRUE),
                                   enableKernelCache |-> BoolVal(TRUE)])>>])

InitialSystems == {NoSystem, FreshSystem}

\* the values encode_option of a range setting is offered
OptionValues ==
    {None, NonNumeric, BoolVal(TRUE),
     IntVal(0), IntVal(1), IntVal(2), IntVal(10), IntVal(120)}

WebConfigNames == {"WebConfigCacheEnabled", "WebConfigEnableKernelCache"}

RECURSIVE EntrySeqs(_)
\* the values dicts of at most n entries: distinct web-config settings, each
\* with a valid value
EntrySeqs(n) ==
    IF n = 0 THEN {<< >>}
    ELSE LET shorter == EntrySeqs(n - 1)
         IN  shorter \cup
             {Append(q, Entry(name, IntVal(v))) :
                 q \in {x \in shorter : Len(x) = n - 1},
                 name \in WebConfigNames, v \in 0 .. 1}

DistinctNames(entries) ==
    \A i, j \in 1 .. Len(entries) : i # j => entries[i].name # entries[j].name

RoundTripRecords ==
    {[path |-> p, values |-> entries] :
        p \in Paths,
        entries \in {q \in EntrySeqs(MaxEntries) : DistinctNames(q)}}

RECURSIVE RecordSeqs(_)
RecordSeqs(n) ==
    IF n = 0 THEN {<< >>}
    ELSE LET shorter == RecordSeqs(n - 1)
         IN  shorter \cup
             {Append(q, r) : q \in {x \in shorter : Len(x) = n - 1},
                             r \in RoundTripRecords}

\* the values encode_option of the aggregate is offered
AggregateValues == {None} \cup {ListVal(q) : q \in RecordSeqs(MaxRecords)}

\* pathval[filter] of the path's entry in the web configuration
FieldsAt(wc, path, filter) ==
    LET pathval == wc.paths[CHOOSE k \in 1 .. Len(wc.paths) : wc.paths[k].path = path]
    IN  pathval.filters[CHOOSE j \in 1 .. Len(pathval.filters) :
                            pathval.filters[j].filter = filter].fields

RoundTripInit ==
    /\ rs_class = NoClass
    /\ rs_config = << >>
    /\ rs_self = Unbuilt
    /\ rs_call = NoCall
    /\ enc_config = << >>
    /\ encoder = NoEncoder
    /\ call = NoEncoderCall
    /\ system \in InitialSystems

\* encoder = Encoder(config)
RoundTripConstruct ==
    /\ encoder = NoEncoder
    /\ \E config \in RoundTripConfigs :
          /\ enc_config' = config
          /\ encoder' = Encoder_init(config)
    /\ UNCHANGED <<call, system, rs_vars>>

\* setting.encode_option(value) of a registry setting
RegistryEncodeOption ==
    /\ encoder.err = ""
    /\ call.op = "none"
    /\ \E i \in 1 .. Len(encoder.settings), value \in OptionValues :
          /\ encoder.settings[i].kind = "registry"
          /\ call' = Returned(
                         Call("encode_option", encoder.settings[i].name, "", value,
                              NoSystem, system, "", << >>, None),
                         RegistryRangeSetting_encode_option(encoder.settings[i], value))
    /\ UNCHANGED <<enc_config, encoder, system, rs_vars>>

\* setting.encode_option(path, value) of a web-config range setting
WebConfigRangeEncodeOption ==
    /\ encoder.err = ""
    /\ call.op = "none"
    /\ \E i \in 1 .. Len(encoder.settings), path \in Paths, value \in OptionValues :
          /\ encoder.settings[i].kind = "webconfig"
          /\ call' = Returned(
                         Call("encode_option", encoder.settings[i].name, path, value,
                              NoSystem, system, "", << >>, None),
                         WebConfigRangeSetting_encode_option(
                             encoder.settings[i], path, value))
    /\ UNCHANGED <<enc_config, encoder, system, rs_vars>>

\* setting.encode_option(value, encoder.settings) of the aggregate
AggregateEncodeOption ==
    /\ encoder.err = ""
    /\ call.op = "none"
    /\ Owns(encoder.settings, "WebConfig")
    /\ \E value \in AggregateValues :
          call' = Returned(
                      Call("encode_option", "WebConfig", "", value,
                           NoSystem, system, "", << >>, None),
                      WebConfigSetting_encode_option(value, encoder.settings))
    /\ UNCHANGED <<enc_config, encoder, system, rs_vars>>

\* the script encode_option returned is run on the system
RunScript ==
    /\ call.op = "encode_option"
    /\ call.err = ""
    /\ system' = ApplyScript(system, call.out, 1)
    /\ call' = [call EXCEPT !.op = "applied"]
    /\ UNCHANGED <<enc_config, encoder, rs_vars>>

\* setting.decode_option of what the system describes: the describe data for
\* a registry setting and the aggregate, the fields of its section under the
\* path for a web-config range setting
DecodeOptionOf(setting, path, data) ==
    IF setting.kind = "registry" THEN RegistryRangeSetting_decode_option(setting, data)
    ELSE IF setting.kind = "webconfig"
    THEN WebConfigRangeSetting_decode_option(setting, data, path)
    ELSE WebConfigSetting_decode_option(data, encoder.settings)

\* what decode_option of the setting is given of the system
DescribeFor(setting, path) ==
    IF setting.kind = "webconfig"
    THEN FieldsData(FieldsAt(system.wc, path, setting.filter))
    ELSE system

\* setting.decode_option(data) of the system the script has run on
DecodeOptionSnapshot ==
    /\ call.op = "applied"
    /\ call' = Returned(
                   [call EXCEPT !.op = "decode_option",
                                !.data = DescribeFor(Lookup(encoder.settings, call.setting),
                                                     call.path)],
                   DecodeOptionOf(Lookup(encoder.settings, call.setting), call.path,
                                  DescribeFor(Lookup(encoder.settings, call.setting),
                                              call.path)))
    /\ UNCHANGED <<enc_config, encoder, system, rs_vars>>

\* setting.decode_option(script) of the script encode_option returned
DecodeOptionText ==
    /\ call.op = "encode_option"
    /\ call.err = ""
    /\ call' = Returned(
                   [call EXCEPT !.op = "decode_option", !.data = ScriptData(call.out)],
                   DecodeOptionOf(Lookup(encoder.settings, call.setting), call.path,
                                  ScriptData(call.out)))
    /\ UNCHANGED <<enc_config, encoder, system, rs_vars>>

RoundTripNext ==
    \/ RoundTripConstruct
    \/ RegistryEncodeOption
    \/ WebConfigRangeEncodeOption
    \/ AggregateEncodeOption
    \/ RunScript
    \/ DecodeOptionSnapshot
    \/ DecodeOptionText

SpecRoundTrip == RoundTripInit /\ [][RoundTripNext]_vars

----------------------------------------------------------------------------
(* SpecConstruct: an Encoder is constructed from a configuration that may   *)
(* request any name, each with any options.                                 *)

\* the names a configuration may request: every X for which globals() holds
\* a class XSetting, and a name for which it holds none
ConstructNames == DOMAIN SettingClasses \cup AbstractSettingClasses \cup {"Bogus"}

\* the options a configuration gives one setting: none, recognized ones and
\* one no class recognizes
ConstructOptions ==
    {<< >>,
     [default |-> IntVal(0)],
     [unit |-> StrVal(<<"s">>)],
     [path |-> StrVal(<<"p">>)],
     [bogus |-> IntVal(1)],
     [min |-> IntVal(0), max |-> IntVal(4), step |-> IntVal(1)]}

RECURSIVE ConstructSettings(_)
\* config['settings']: at most n entries [name, config] of distinct names
ConstructSettings(n) ==
    IF n = 0 THEN {<< >>}
    ELSE LET shorter == ConstructSettings(n - 1)
         IN  shorter \cup
             {Append(q, [name |-> name, config |-> options]) :
                 q \in {x \in shorter : Len(x) = n - 1},
                 name \in ConstructNames, options \in ConstructOptions}

ConstructConfigs ==
    {[settings |-> q, before |-> << >>, after |-> << >>] :
        q \in {x \in ConstructSettings(MaxRequested) :
                  \A i, j \in 1 .. Len(x) : i # j => x[i].name # x[j].name}}

\* encoder = Encoder(config)
ConstructRequested ==
    /\ encoder = NoEncoder
    /\ \E config \in ConstructConfigs :
          /\ enc_config' = config
          /\ encoder' = Encoder_init(config)
    /\ UNCHANGED <<call, system, rs_vars>>

ConstructNext == ConstructRequested

SpecConstruct == Init /\ [][ConstructNext]_vars

----------------------------------------------------------------------------
(* SpecSetting: an Encoder is constructed and one method of one of its      *)
(* settings is called on data of any shape.                                 *)

\* the describe data decode_option of a registry setting is offered: whatever
\* is found under the registry path, with and without a web configuration
RegistryDescribeData ==
    {DictData(reg, wc) : reg \in RegistryEntries, wc \in {NoWc, FreshSystem.wc}}

\* setting.decode_option(data) of a registry setting
RegistryDecodeOption ==
    /\ encoder.err = ""
    /\ call.op = "none"
    /\ \E i \in 1 .. Len(encoder.settings), data \in RegistryDescribeData :
          /\ encoder.settings[i].kind = "registry"
          /\ call' = Returned(
                         Call("decode_option", encoder.settings[i].name, "", None,
                              data, NoSystem, "", << >>, None),
                         RegistryRangeSetting_decode_option(encoder.settings[i], data))
    /\ UNCHANGED <<enc_config, encoder, system, rs_vars>>

\* the entries name: {'value': v} offered in a record: a web-config range
\* setting with a value it accepts (1) and one it refuses (2), a registry
\* setting, the aggregate itself and a name that is no setting
OfferedEntries ==
    {Entry("WebConfigCacheEnabled", IntVal(1)), Entry("WebConfigCacheEnabled", IntVal(2)),
     Entry("UriEnableCache", IntVal(1)), Entry("WebConfig", IntVal(1)),
     Entry("Bogus", IntVal(1))}

RECURSIVE OfferedEntrySeqs(_)
\* values_dict: at most n entries of distinct names
OfferedEntrySeqs(n) ==
    IF n = 0 THEN {<< >>}
    ELSE LET shorter == OfferedEntrySeqs(n - 1)
         IN  shorter \cup
             {Append(q, entry) : q \in {x \in shorter : Len(x) = n - 1},
                                 entry \in OfferedEntries}

\* the records offered: {path, values}, one with a third key and one with
\* no values
OfferedRecords ==
    {[path |-> "MACHINE/WEBROOT/APPHOST", values |-> entries] :
        entries \in {q \in OfferedEntrySeqs(MaxEntries) : DistinctNames(q)}}
    \cup {[path |-> "MACHINE/WEBROOT/APPHOST",
           values |-> <<Entry("WebConfigCacheEnabled", IntVal(1))>>,
           colour |-> IntVal(1)],
          [path |-> "MACHINE/WEBROOT/APPHOST"]}

RECURSIVE OfferedRecordSeqs(_)
OfferedRecordSeqs(n) ==
    IF n = 0 THEN {<< >>}
    ELSE LET shorter == OfferedRecordSeqs(n - 1)
         IN  shorter \cup
             {Append(q, r) : q \in {x \in shorter : Len(x) = n - 1},
                             r \in OfferedRecords}

\* the values validate_value of the aggregate is offered
OfferedAggregateValues ==
    {None, IntVal(1)} \cup {ListVal(q) : q \in OfferedRecordSeqs(MaxRecords)}

\* setting.validate_value(value, encoder.settings) of the aggregate
AggregateValidateValue ==
    /\ encoder.err = ""
    /\ call.op = "none"
    /\ Owns(encoder.settings, "WebConfig")
    /\ \E value \in OfferedAggregateValues :
          call' = Returned(
                      Call("validate_value", "WebConfig", "", value,
                           NoSystem, NoSystem, "", << >>, None),
                      WebConfigSetting_validate_value(value, encoder.settings))
    /\ UNCHANGED <<enc_config, encoder, system, rs_vars>>

\* setting.encode_option(value, encoder.settings) of the aggregate, of the
\* values validate_value is offered
AggregateEncodeOffered ==
    /\ encoder.err = ""
    /\ call.op = "none"
    /\ Owns(encoder.settings, "WebConfig")
    /\ \E value \in OfferedAggregateValues :
          call' = Returned(
                      Call("encode_option", "WebConfig", "", value,
                           NoSystem, NoSystem, "", << >>, None),
                      WebConfigSetting_encode_option(value, encoder.settings))
    /\ UNCHANGED <<enc_config, encoder, system, rs_vars>>

\* a nested map found where a value is expected
MapVal == [t |-> "dict", n |-> 0, s |-> << >>]

\* the raw values found for a setting: non-numeric text, a null, a nested
\* map, a nested list, and values int() reads
RawValues ==
    {NonNumeric, None, MapVal, ListVal(<< >>),
     IntVal(1), BoolVal(TRUE), StrVal(<<"1">>)}

\* the describe data that holds raw for the setting: under the registry
\* path for a registry setting, in the fields of its section for a
\* web-config range setting
RawDataFor(setting, raw) ==
    IF setting.kind = "registry"
    THEN DictData([present |-> TRUE, d |-> DictSet(<< >>, setting.name, raw)], NoWc)
    ELSE FieldsData(DictSet(<< >>, NameLocator(setting), raw))

\* setting.decode_option(data) of a registry setting and
\* setting.decode_option(data, path) of a web-config range setting, on data
\* that holds a raw value for the setting
DecodeOptionRaw ==
    /\ encoder.err = ""
    /\ call.op = "none"
    /\ \E i \in 1 .. Len(encoder.settings), raw \in RawValues :
          /\ encoder.settings[i].kind \in {"registry", "webconfig"}
          /\ call' = Returned(
                         Call("decode_option", encoder.settings[i].name,
                              "MACHINE/WEBROOT/APPHOST", raw,
                              RawDataFor(encoder.settings[i], raw), NoSystem,
                              "", << >>, None),
                         DecodeOptionOf(encoder.settings[i], "MACHINE/WEBROOT/APPHOST",
                                        RawDataFor(encoder.settings[i], raw)))
    /\ UNCHANGED <<enc_config, encoder, system, rs_vars>>

\* describe data complete for every setting, with the raw values raw_reg
\* for UriEnableCache and raw_wc for the field `enabled`
RawDescribeData(raw_reg, raw_wc) ==
    DictData([present |-> TRUE,
              d |-> [UriEnableCache |-> raw_reg, UriScavengerPeriod |-> IntVal(30)]],
             [t |-> "dict",
              paths |-> <<Section("MACHINE/WEBROOT/APPHOST",
                                  [enabled |-> raw_wc,
                                   enableKernelCache |-> BoolVal(TRUE)])>>])

\* encoder.decode_multi(data) of describe data that holds raw values
DecodeMultiRaw ==
    /\ encoder.err = ""
    /\ call.op = "none"
    /\ \E raw_reg \in RawValues, raw_wc \in RawValues :
          call' = Returned(Call("decode_multi", "", "", << >>,
                                RawDescribeData(raw_reg, raw_wc), NoSystem,
                                "", << >>, << >>),
                           Encoder_decode_multi(encoder, RawDescribeData(raw_reg, raw_wc)))
    /\ UNCHANGED <<enc_config, encoder, system, rs_vars>>

\* records of the aggregate that are not {path, values} with every value
\* given as {value: v}: one without path, one without path that names no
\* value, one without values, one whose value is a bare number; and a record
\* of the right shape
ShapedRecords ==
    {[values |-> <<Entry("WebConfigCacheEnabled", IntVal(1))>>],
     [values |-> << >>],
     [path |-> "MACHINE/WEBROOT/APPHOST"],
     [path |-> "MACHINE/WEBROOT/APPHOST",
      values |-> <<[name |-> "WebConfigCacheEnabled", val |-> IntVal(1)]>>],
     [path |-> "MACHINE/WEBROOT/APPHOST",
      values |-> <<Entry("WebConfigCacheEnabled", IntVal(1))>>]}

\* encoder.encode_multi({'WebConfig': records}) of one or two such records
EncodeMultiShaped ==
    /\ encoder.err = ""
    /\ call.op = "none"
    /\ Owns(encoder.settings, "WebConfig")
    /\ \E first \in ShapedRecords, rest \in {<< >>} \cup {<<r>> : r \in ShapedRecords} :
          call' = Returned(Call("encode_multi", "", "",
                                [WebConfig |-> ListVal(<<first>> \o rest)],
                                NoSystem, NoSystem, "", << >>, None),
                           Encoder__encode_multi(
                               encoder, [WebConfig |-> ListVal(<<first>> \o rest)]))
    /\ UNCHANGED <<enc_config, encoder, system, rs_vars>>

\* the ints the value encoder is given
CodecValues == {IntVal(i) : i \in -1 .. MaxNum}

\* IntToBoolValueEncoder.decode(IntToBoolValueEncoder.encode(value)): the
\* call keeps the str encode returned (out, its characters) and what decode
\* made of it
BoolCodecRoundTrip ==
    /\ call.op = "none"
    /\ \E value \in CodecValues :
          call' = Returned(Call("codec", "IntToBoolValueEncoder", "", value,
                                NoSystem, NoSystem, "",
                                IntToBoolValueEncoder_encode(value), None),
                           IntToBoolValueEncoder_decode(
                               StrVal(IntToBoolValueEncoder_encode(value))))
    /\ UNCHANGED <<enc_config, encoder, system, rs_vars>>

SettingNext ==
    \/ RoundTripConstruct
    \/ RegistryDecodeOption
    \/ AggregateValidateValue
    \/ AggregateEncodeOffered
    \/ BoolCodecRoundTrip
    \/ DecodeOptionRaw
    \/ DecodeMultiRaw
    \/ EncodeMultiShaped

SpecSetting == Init /\ [][SettingNext]_vars

----------------------------------------------------------------------------
(* SpecDriver: an Encoder is constructed and the driver asks it for the     *)
(* describe script and the description of its settings.                     *)

RECURSIVE PathRecords(_)
\* webconfig['value']: at most n records, each with a path; the same path may
\* be listed more than once
PathRecords(n) ==
    IF n = 0 THEN {<< >>}
    ELSE LET shorter == PathRecords(n - 1)
         IN  shorter \cup
             {Append(q, [path |-> path]) :
                 q \in {x \in shorter : Len(x) = n - 1}, path \in Paths}

\* the adjust configurations of the driver: an empty one, one with no
\* "WebConfig", one whose "WebConfig" is empty, and those that list paths
AdjustConfigs ==
    {<< >>, [other |-> IntVal(1)], [WebConfig |-> << >>]} \cup
    {[WebConfig |-> [value |-> value]] : value \in PathRecords(MaxRecords)}

\* encoder.encode_describe(adjust_driver_config)
EncodeDescribe ==
    /\ encoder.err = ""
    /\ call.op = "none"
    /\ \E adjust_driver_config \in AdjustConfigs :
          call' = Call("encode_describe", "", "", adjust_driver_config, NoSystem,
                       NoSystem, "",
                       Encoder_encode_describe(encoder, adjust_driver_config), None)
    /\ UNCHANGED <<enc_config, encoder, system, rs_vars>>

\* encoder.describe(adjust_config); describe() is describe(None), which takes
\* the branch an empty adjust_config takes
Describe ==
    /\ encoder.err = ""
    /\ call.op = "none"
    /\ \E adjust_config \in AdjustConfigs :
          call' = Returned(Call("describe", "", "", adjust_config, NoSystem,
                                NoSystem, "", << >>, << >>),
                           Encoder_describe(encoder, adjust_config))
    /\ UNCHANGED <<enc_config, encoder, system, rs_vars>>

\* encoder.encode_multi(values, expected_type)
EncodeMultiTyped ==
    /\ encoder.err = ""
    /\ call.op = "none"
    /\ \E values \in ValueMaps(NameSeq(encoder.settings), 1),
          expected_type \in ExpectedTypes :
          call' = [expected_type |-> expected_type] @@
                  Returned(Call("encode_multi", "", "", values, NoSystem,
                                NoSystem, "", << >>, None),
                           Encoder_encode_multi(encoder, values, expected_type))
    /\ UNCHANGED <<enc_config, encoder, system, rs_vars>>

\* the configurations the helper is given: settings with no options, the
\* name of the encoder (none, this one, one there is no module for) and an
\* expected_type
HelperConfigs ==
    {[name |-> name, expected_type |-> expected_type] @@ config :
        config \in {c \in RoundTripConfigs :
                        \A i \in 1 .. Len(c.settings) :
                            c.settings[i].name \in
                                {"UriEnableCache", "WebConfigCacheEnabled", "WebConfig"}},
        name \in {"", "dotnet", "jvm"},
        expected_type \in ExpectedTypes}

\* the values the helper is given: {name: {'value': v}}
HelperValues ==
    {[name \in DOMAIN m |-> [value |-> m[name]]] :
        m \in ValueMaps(<<"UriEnableCache", "WebConfigCacheEnabled">>, 1)}

\* the adjust_config the helper is given: none, and one that lists a path
HelperAdjustConfigs ==
    {<< >>, [WebConfig |-> [value |-> <<[path |-> "MACHINE/WEBROOT/APPHOST"]>>]]}

\* a call of the helper with its outcome r: the call also keeps the
\* expected_type and the adjust_config given, and the set of names returned
HelperCall(values, expected_type, adjust_config, r) ==
    [expected_type |-> expected_type, adjust_config |-> adjust_config,
     names |-> r.names] @@
    Returned(Call("encode", "", "", values, NoSystem, NoSystem, "", << >>, None), r)

\* encode(config, values, expected_type, adjust_config): the helper
\* constructs the Encoder itself; encoder is the Encoder it constructed, or
\* the exception that kept it from constructing one
EncodeHelper ==
    /\ encoder = NoEncoder
    /\ call.op = "none"
    /\ \E config \in HelperConfigs, values \in HelperValues,
          expected_type \in ExpectedTypes, adjust_config \in HelperAdjustConfigs :
          /\ enc_config' = config
          /\ encoder' = IF validate_config(config) # ""
                        THEN NotConstructed(validate_config(config))
                        ELSE IF load_encoder(config.name) # ""
                        THEN NotConstructed(load_encoder(config.name))
                        ELSE Encoder_init(config)
          /\ call' = HelperCall(values, expected_type, adjust_config,
                                encode(config, values, expected_type, adjust_config))
    /\ UNCHANGED <<system, rs_vars>>

DriverNext ==
    \/ RoundTripConstruct
    \/ EncodeDescribe
    \/ Describe
    \/ EncodeMultiTyped
    \/ EncodeHelper

SpecDriver == Init /\ [][DriverNext]_vars

----------------------------------------------------------------------------
(* SpecCalls: an Encoder is constructed and describe, encode_multi,         *)
(* decode_multi and encode_describe are called on it, one call after the    *)
(* other.  The call kept is the last one, with the number of calls made so  *)
(* far (seq), how many of them raised (failed), and the values map of the   *)
(* caller as the call left it (values_after).                               *)

\* the Encoder as a call of describe, encode_multi, decode_multi or
\* encode_describe leaves it: the only assignments to self.settings and to a
\* setting's config, min, max, step and default are those of the __init__
\* methods, and no method called mutates a setting in place
Encoder_after_call(self) == self

\* a wrong _encode_multi: the values are popped from the caller's map
Encoder__encode_multi_values_popped(self, values) ==
    [name \in DOMAIN values \ SettingNames(self) |-> values[name]]

\* the caller's map as _encode_multi leaves it: values_to_encode is
\* values.copy(), and the pops act on the copy
Encoder__encode_multi_values(self, values) == values

CallCount == IF "seq" \in DOMAIN call THEN call.seq ELSE 0

FailedCount == IF "failed" \in DOMAIN call THEN call.failed ELSE 0

\* the call c as the next call of the sequence
Sequenced(c, values_after) ==
    [seq |-> CallCount + 1,
     failed |-> FailedCount + (IF c.err # "" THEN 1 ELSE 0),
     values_after |-> values_after] @@ c

\* the configurations the Encoder of the calls is constructed from: some of
\* a registry setting, a web-config range setting and the aggregate, with no
\* options
CallsConfigs ==
    {c \in RoundTripConfigs :
        \A i \in 1 .. Len(c.settings) :
            c.settings[i].name \in {"UriEnableCache", "WebConfigCacheEnabled", "WebConfig"}}

\* encoder = Encoder(config)
CallsConstruct ==
    /\ encoder = NoEncoder
    /\ \E config \in CallsConfigs :
          /\ enc_config' = config
          /\ encoder' = Encoder_init(config)
    /\ UNCHANGED <<call, system, rs_vars>>

CallsDescribe ==
    /\ encoder.err = ""
    /\ CallCount < MaxCalls
    /\ \E adjust_config \in AdjustConfigs :
          call' = Sequenced(Returned(Call("describe", "", "", adjust_config, NoSystem,
                                          NoSystem, "", << >>, << >>),
                                     Encoder_describe(encoder, adjust_config)),
                            << >>)
    /\ encoder' = Encoder_after_call(encoder)
    /\ UNCHANGED <<enc_config, system, rs_vars>>

CallsEncodeMulti ==
    /\ encoder.err = ""
    /\ CallCount < MaxCalls
    /\ \E values \in ValueMaps(NameSeq(encoder.settings), 1) :
          call' = Sequenced(Returned(Call("encode_multi", "", "", values, NoSystem,
                                          NoSystem, "", << >>, << >>),
                                     Encoder__encode_multi(encoder, values)),
                            Encoder__encode_multi_values(encoder, values))
    /\ encoder' = Encoder_after_call(encoder)
    /\ UNCHANGED <<enc_config, system, rs_vars>>

CallsDecodeMulti ==
    /\ encoder.err = ""
    /\ CallCount < MaxCalls
    /\ \E data \in DecodeInputs :
          call' = Sequenced(Returned(Call("decode_multi", "", "", << >>, data,
                                          NoSystem, "", << >>, << >>),
                                     Encoder_decode_multi(encoder, data)),
                            << >>)
    /\ encoder' = Encoder_after_call(encoder)
    /\ UNCHANGED <<enc_config, system, rs_vars>>

CallsEncodeDescribe ==
    /\ encoder.err = ""
    /\ CallCount < MaxCalls
    /\ \E adjust_driver_config \in AdjustConfigs :
          call' = Sequenced(Call("encode_describe", "", "", adjust_driver_config,
                                 NoSystem, NoSystem, "",
                                 Encoder_encode_describe(encoder, adjust_driver_config),
                                 << >>),
                            << >>)
    /\ encoder' = Encoder_after_call(encoder)
    /\ UNCHANGED <<enc_config, system, rs_vars>>

CallsNext ==
    \/ CallsConstruct
    \/ CallsDescribe
    \/ CallsEncodeMulti
    \/ CallsDecodeMulti
    \/ CallsEncodeDescribe

SpecCalls == Init /\ [][CallsNext]_vars

----------------------------------------------------------------------------
(* Properties of RangeSetting, checked under SpecRange *)

Abs(i) == IF i < 0 THEN 0 - i ELSE i

\* r is a whole multiple of s
MultipleOf(r, s) == \E k \in (0 - Abs(r)) .. Abs(r) : r = k * s

\* v is min plus a whole number of steps
OnGrid(v, min, step) ==
    \E k \in (0 - Abs(v - min)) .. Abs(v - min) : v = min + k * step

Built == rs_self.err # "unbuilt"

Constructed == rs_self.err = ""

\* min, max and step of the configuration: the configured value, else the
\* class attribute
Overlay(key) == DictGet(rs_config, key, rs_class[key])

\* C6: validate_value(v) raises SettingRuntimeException exactly when v is
\* None, not a number, below min, above max, or (with min < max and step > 0)
\* not a whole number of steps above min; otherwise it returns v itself.
C6_validate_value_exact ==
    rs_call.called =>
        LET v == rs_call.value
            refused ==
                \/ v = None
                \/ ~IsNumber(v)
                \/ v.n < rs_self.min.n
                \/ v.n > rs_self.max.n
                \/ /\ rs_self.min.n < rs_self.max.n
                   /\ rs_self.step.n > 0
                   /\ ~OnGrid(v.n, rs_self.min.n, rs_self.step.n)
        IN  IF refused
            THEN rs_call.res.err = SettingRuntimeException
            ELSE rs_call.res = [err |-> "", val |-> v]

\* a value inside [min, max] that is refused for the step requirement alone
C6_witness ==
    /\ rs_call.called
    /\ IsNumber(rs_call.value)
    /\ rs_call.value.n > rs_self.min.n
    /\ rs_call.value.n < rs_self.max.n
    /\ rs_call.res.err = SettingRuntimeException

\* C7 as stated: for every accepted (min, max, step), every min + k*step
\* inside [min, max] passes validate_value, and min - step and max + step fail.
C7_grid_passes_neighbours_fail ==
    (rs_call.called /\ IsNumber(rs_call.value)) =>
        LET v == rs_call.value.n
        IN  /\ (/\ OnGrid(v, rs_self.min.n, rs_self.step.n)
                /\ rs_self.min.n <= v
                /\ v <= rs_self.max.n) => rs_call.res.err = ""
            /\ (\/ v = rs_self.min.n - rs_self.step.n
                \/ v = rs_self.max.n + rs_self.step.n) => rs_call.res.err # ""

\* C7 amended: every min + k*step inside [min, max] passes validate_value;
\* min - step and max + step fail whenever step is not 0 (a step of 0 is
\* accepted with min = max, and then both are min itself, which passes).
C7_grid_passes_neighbours_fail_nonzero_step ==
    (rs_call.called /\ IsNumber(rs_call.value)) =>
        LET v == rs_call.value.n
        IN  /\ (/\ OnGrid(v, rs_self.min.n, rs_self.step.n)
                /\ rs_self.min.n <= v
                /\ v <= rs_self.max.n) => rs_call.res = [err |-> "", val |-> rs_call.value]
            /\ (/\ rs_self.step.n # 0
                /\ \/ v = rs_self.min.n - rs_self.step.n
                   \/ v = rs_self.max.n + rs_self.step.n)
                    => rs_call.res.err = SettingRuntimeException
            /\ (/\ rs_self.step.n = 0
                /\ v = rs_self.min.n - rs_self.step.n) => rs_call.res.err = ""

\* max + step is offered to a setting with several steps between min and max
C7_witness ==
    /\ rs_call.called
    /\ IsNumber(rs_call.value)
    /\ rs_self.min.n + rs_self.step.n < rs_self.max.n
    /\ rs_call.value.n = rs_self.max.n + rs_self.step.n
    /\ rs_call.res.err = SettingRuntimeException

\* the invariants of a range
ValidRange(minv, maxv, step) ==
    /\ IsNumber(minv) /\ IsNumber(maxv) /\ IsNumber(step)
    /\ minv.n <= maxv.n
    /\ (minv.n # maxv.n) => step.n > 0
    /\ MultipleOf(maxv.n - minv.n, step.n)

\* C8: a constructed RangeSetting has numeric min, max and step with
\* min <= max, step > 0 unless min = max, and max - min a whole multiple of
\* step; a configuration (class attributes overlaid with the configured min,
\* max, step) that violates any of these is refused with
\* SettingConfigException.
C8_constructed_range_is_valid ==
    Built =>
        /\ Constructed => ValidRange(rs_self.min, rs_self.max, rs_self.step)
        /\ Constructed => /\ rs_self.min = Overlay("min")
                          /\ rs_self.max = Overlay("max")
                          /\ rs_self.step = Overlay("step")
        /\ ~ValidRange(Overlay("min"), Overlay("max"), Overlay("step"))
              => rs_self.err = SettingConfigException

\* a configured range with several steps is constructed
C8_witness ==
    /\ Constructed
    /\ {"min", "max", "step"} \subseteq DOMAIN rs_config
    /\ rs_self.step.n > 1
    /\ rs_self.max.n > rs_self.min.n

\* C9 as stated: a class with freeze_range (and built-in min, max, step)
\* refuses every configuration that holds a min, max or step key.
C9_freeze_range_rejects_every_override ==
    (/\ Built
     /\ rs_class.freeze_range
     /\ rs_class.min # None
     /\ DOMAIN rs_config \cap {"min", "max", "step"} # {})
        => rs_self.err = SettingConfigException

\* everything the relaxation rule compares is there: the class has its
\* built-in range, and the configuration is one of numbers only
RelaxationCase ==
    /\ Built
    /\ rs_class.relaxable = FALSE
    /\ rs_class.freeze_range = FALSE
    /\ rs_class.min # None
    /\ DOMAIN rs_config \subseteq {"min", "max", "step"}
    /\ \A k \in DOMAIN rs_config : IsNumber(rs_config[k])

\* C10: with relaxable = False (freeze_range off), a configured min below the
\* built-in min, a configured max above the built-in max and a configured
\* step that is no whole multiple of the built-in step are each refused with
\* SettingConfigException; a valid range with min at or above the built-in
\* min, max at or below the built-in max and step a multiple of the built-in
\* step is accepted.
C10_relaxable_false_bounds ==
    RelaxationCase =>
        LET minv == Overlay("min").n
            maxv == Overlay("max").n
            step == Overlay("step").n
            inside == /\ minv >= rs_class.min.n
                      /\ maxv <= rs_class.max.n
                      /\ MultipleOf(step, rs_class.step.n)
        IN  /\ ~inside => rs_self.err = SettingConfigException
            /\ (inside /\ ValidRange(Overlay("min"), Overlay("max"), Overlay("step")))
                  => Constructed

\* a range narrowed from both sides, with a larger step, is accepted
C10_witness ==
    /\ RelaxationCase
    /\ Constructed
    /\ rs_self.min.n > rs_class.min.n
    /\ rs_self.max.n < rs_class.max.n
    /\ rs_self.step.n > rs_class.step.n

----------------------------------------------------------------------------
(* Properties of the Encoder, checked under Spec *)

\* the kind of the setting the last call was about
CallKind == Lookup(encoder.settings, call.setting).kind

\* the names of the owned settings _decode_multi decodes: all but the
\* web-config range settings
DecodedNames ==
    {encoder.settings[i].name :
        i \in {j \in 1 .. Len(encoder.settings) : encoder.settings[j].kind # "webconfig"}}

\* the names of the web-config range settings the Encoder owns
OwnedWebConfigNames ==
    {encoder.settings[i].name :
        i \in {j \in 1 .. Len(encoder.settings) : encoder.settings[j].kind = "webconfig"}}

\* C1: for every values map with at least one key that is no owned setting,
\* encode_multi fails with EncoderRuntimeException and produces no output,
\* whatever the other entries are.
C1_unknown_key_always_runtime_error ==
    (call.op = "encode_multi" /\ DOMAIN call.value \ SettingNames(encoder) # {})
        => (call.err = EncoderRuntimeException /\ call.out = << >>)

\* describe data every part of which can be decoded: numbers under the
\* registry path, booleans in the sections of the web configuration
Decodable(data) ==
    /\ data.form \in {"dict", "json"}
    /\ \A key \in DOMAIN data.reg.d \ {"PSPath"} : IsNumber(data.reg.d[key])
    /\ data.wc.t \in {"absent", "dict"}
    /\ \A k \in 1 .. Len(data.wc.paths) :
          \A j \in 1 .. Len(data.wc.paths[k].filters) :
             \A f \in DOMAIN data.wc.paths[k].filters[j].fields :
                IsNumber(data.wc.paths[k].filters[j].fields[f])

\* C2: for every Encoder and every decodable input decode_multi returns a map
\* with one key for every owned setting, and a registry setting whose state
\* is not in the input gets its default: never a missing key, never an error.
C2_decode_multi_complete_map ==
    (call.op = "decode_multi" /\ Decodable(call.data))
        => /\ call.err = ""
           /\ DOMAIN call.val = SettingNames(encoder)
           /\ \A i \in 1 .. Len(encoder.settings) :
                 (/\ encoder.settings[i].kind = "registry"
                  /\ encoder.settings[i].name \notin DOMAIN call.data.reg.d)
                     => call.val[encoder.settings[i].name] = encoder.settings[i].default

MissingField(data) ==
    /\ data.wc.t = "dict"
    /\ \E k \in 1 .. Len(data.wc.paths), i \in 1 .. Len(encoder.settings) :
          /\ encoder.settings[i].kind = "webconfig"
          /\ \E j \in 1 .. Len(data.wc.paths[k].filters) :
                /\ data.wc.paths[k].filters[j].filter = encoder.settings[i].filter
                /\ NameLocator(encoder.settings[i])
                       \notin DOMAIN data.wc.paths[k].filters[j].fields

\* the last call was decode_multi, by an Encoder that owns the aggregate, of
\* data with such a block
DecodedMissingField ==
    /\ call.op = "decode_multi"
    /\ call.data.form \in {"dict", "json"}
    /\ Owns(encoder.settings, "WebConfig")
    /\ MissingField(call.data)

\* the entries a decoded record holds for the settings whose field the block
\* of its path lacks are the settings' defaults
DefaultsFilledIn(records, data) ==
    \A r \in 1 .. Len(records) : \A e \in 1 .. Len(records[r].values) :
        LET setting == Lookup(encoder.settings, records[r].values[e].name)
        IN  (\E k \in 1 .. Len(data.wc.paths) :
                /\ data.wc.paths[k].path = records[r].path
                /\ \E j \in 1 .. Len(data.wc.paths[k].filters) :
                      /\ data.wc.paths[k].filters[j].filter = setting.filter
                      /\ NameLocator(setting)
                             \notin DOMAIN data.wc.paths[k].filters[j].fields)
                => records[r].values[e].val.value = setting.default

----------------------------------------------------------------------------
(* Properties of the settings' round trip, checked under SpecRoundTrip *)

\* decode_option returned the number encode_option was given
SameValue == call.err = "" /\ IsNumber(call.val) /\ call.val.n = call.value.n

EntriesDict(entries) ==
    [name \in {entries[i].name : i \in 1 .. Len(entries)} |->
        entries[CHOOSE i \in 1 .. Len(entries) : entries[i].name = name].val]

\* the records of a list, whatever their order
RecordSet(items) ==
    {[path |-> items[i].path, values |-> EntriesDict(items[i].values)] :
        i \in 1 .. Len(items)}

\* the last call decoded the system a script of the aggregate has run on
AggregateRoundTrip ==
    /\ call.op = "decode_option"
    /\ call.setting = "WebConfig"
    /\ call.data.form = "dict"
    /\ call.value # None

\* records of pairwise distinct paths, each with at least one entry
MultiPath(records) ==
    /\ \A i, j \in 1 .. Len(records) : i # j => records[i].path # records[j].path
    /\ \A i \in 1 .. Len(records) : records[i].values # << >>

Reproducible(records, prior) ==
    /\ MultiPath(records)
    /\ \A i \in 1 .. Len(records) :
          {records[i].values[e].name : e \in 1 .. Len(records[i].values)}
              = OwnedWebConfigNames
    /\ \A k \in 1 .. Len(prior.wc.paths) :
          \E i \in 1 .. Len(records) : records[i].path = prior.wc.paths[k].path

----------------------------------------------------------------------------
(* Properties of the Encoder's construction, checked under SpecConstruct *)

\* the options the class of a concrete setting recognizes
RecognizedOptions(name) ==
    IF SettingClasses[name].kind = "aggregate"
    THEN WebConfigSetting_allowed_options
    ELSE DotnetRangeSetting_allowed_options

\* the configuration requests a name that is no concrete setting, or gives a
\* concrete setting an option its class does not recognize
UnknownRequest(config) ==
    \E i \in 1 .. Len(config.settings) :
        \/ config.settings[i].name \notin DOMAIN SettingClasses
        \/ /\ config.settings[i].name \in DOMAIN SettingClasses
           /\ DOMAIN config.settings[i].config
                  \ RecognizedOptions(config.settings[i].name) # {}

\* C11: a configuration that requests a name that is no concrete setting
\* (a name that completes to a class without a name included) or an option
\* outside the recognized set fails construction with EncoderConfigException
\* or SettingConfigException, never with another error, and yields no Encoder.
C11_unknown_request_is_config_error ==
    (encoder # NoEncoder /\ UnknownRequest(enc_config))
        => /\ encoder.err \in {EncoderConfigException, SettingConfigException}
           /\ encoder.settings = << >>

----------------------------------------------------------------------------
(* Properties of the settings' methods, checked under SpecSetting *)

\* the last call was decode_option of a registry setting on a dict that holds
\* the registry path but not the setting's name under it
NameAbsentUnderPath ==
    /\ call.op = "decode_option"
    /\ CallKind = "registry"
    /\ call.data.form = "dict"
    /\ call.data.reg.present
    /\ call.setting \notin DOMAIN call.data.reg.d

\* C12: decode_option of a registry setting on structured data returns the
\* setting's default whenever the path is present in the data and the name
\* is absent under it, also when the path maps to a map with no keys at all.
C12_default_when_name_absent ==
    NameAbsentUnderPath
        => /\ call.err = ""
           /\ call.val = Lookup(encoder.settings, call.setting).default

----------------------------------------------------------------------------
(* Properties of the driver's operations, checked under SpecDriver *)

\* how many lines of the text are the statement
Count(text, statement) ==
    Cardinality({i \in 1 .. Len(text) : text[i] = statement})

\* the records of the adjust configuration given to the last call
AdjustRecords ==
    IF HasWebConfig(call.value) THEN call.value["WebConfig"].value ELSE << >>

\* C14: in the script encode_describe returns, for any adjust_config (one
\* that lists a path in more than one record included) and any owned
\* settings, no read statement occurs twice: every registry path of an owned
\* setting has exactly one Get-ItemProperty statement, and every listed path
\* has, with every filter of an owned web-config range setting, exactly one
\* Get-WebConfiguration statement (when the Encoder owns the aggregate).
C14_one_read_per_path_and_filter ==
    call.op = "encode_describe" =>
        /\ \A i \in 1 .. Len(call.out) :
              call.out[i].cmd \in {"Get-ItemProperty", "Get-WebConfiguration"}
                  => Count(call.out, call.out[i]) = 1
        /\ \A i \in 1 .. Len(encoder.settings) :
              encoder.settings[i].kind = "registry"
                  => Count(call.out,
                           RegistryRangeSetting_encode_describe(encoder.settings[i])[1]) = 1
        /\ Owns(encoder.settings, "WebConfig") =>
              \A i \in 1 .. Len(encoder.settings), r \in 1 .. Len(AdjustRecords) :
                  encoder.settings[i].kind = "webconfig"
                      => Count(call.out,
                               WebConfigRangeSetting_encode_describe(
                                   encoder.settings[i], AdjustRecords[r].path)[1]) = 1

----------------------------------------------------------------------------
(* Properties of the aggregate's validate_value, checked under SpecSetting *)

\* the value is no list, an empty list, or holds a record with a key other
\* than path and values
Unacceptable(value) ==
    \/ value.t # "list"
    \/ Len(value.items) = 0
    \/ \E i \in 1 .. Len(value.items) :
          DOMAIN value.items[i] \ {"path", "values"} # {}

\* a record of the list references a name that is no owned setting
ReferencesUnowned(value) ==
    \E i \in 1 .. Len(value.items) :
        /\ "values" \in DOMAIN value.items[i]
        /\ \E e \in 1 .. Len(value.items[i].values) :
              ~Owns(encoder.settings, value.items[i].values[e].name)

FailureAt(value, i, e) ==
    IF e = 0
    THEN IF "values" \in DOMAIN value.items[i] THEN "" ELSE "KeyError"
    ELSE IF "values" \notin DOMAIN value.items[i] THEN ""
    ELSE IF e > Len(value.items[i].values) THEN ""
    ELSE IF ~Owns(encoder.settings, value.items[i].values[e].name)
    THEN EncoderRuntimeException
    ELSE IF Lookup(encoder.settings, value.items[i].values[e].name).kind = "aggregate"
    THEN "TypeError"
    ELSE RangeSetting_validate_value(
             Lookup(encoder.settings, value.items[i].values[e].name),
             value.items[i].values[e].val.value).err

\* the places (record, entry) of the list where validate_value would stop
Failures(value) ==
    {pos \in (1 .. Len(value.items)) \X (0 .. MaxEntries) :
        FailureAt(value, pos[1], pos[2]) # ""}

Before(p, q) == p[1] < q[1] \/ (p[1] = q[1] /\ p[2] <= q[2])

StaticDescription(setting) ==
    [type |-> setting.type, min |-> setting.min, max |-> setting.max,
     step |-> setting.step, unit |-> SettingUnits[setting.name],
     default |-> setting.default]

\* the names of the registry settings the Encoder owns
OwnedRegistryNames ==
    {encoder.settings[i].name :
        i \in {j \in 1 .. Len(encoder.settings) : encoder.settings[j].kind = "registry"}}

\* describe with an adjust_config: the registry settings by name, each with
\* its static description, and the aggregate with one {path, values} record
\* per record of the adjust_config
DescribedWithContext ==
    /\ call.err = ""
    /\ DOMAIN call.val = OwnedRegistryNames \cup (SettingNames(encoder) \cap {"WebConfig"})
    /\ \A name \in OwnedRegistryNames :
          call.val[name] = StaticDescription(Lookup(encoder.settings, name))
    /\ (Owns(encoder.settings, "WebConfig") /\ HasWebConfig(call.value)) =>
          /\ Len(call.val["WebConfig"].value) = Len(AdjustRecords)
          /\ \A k \in 1 .. Len(AdjustRecords) :
                /\ DOMAIN call.val["WebConfig"].value[k] = {"path", "values"}
                /\ call.val["WebConfig"].value[k].path = AdjustRecords[k].path

\* describe without an adjust_config: one entry per owned setting, keyed by
\* its name, a range setting's being its static description
DescribedFlat ==
    /\ call.err = ""
    /\ DOMAIN call.val = SettingNames(encoder)
    /\ \A i \in 1 .. Len(encoder.settings) :
          encoder.settings[i].kind \in {"registry", "webconfig"}
              => call.val[encoder.settings[i].name]
                     = StaticDescription(encoder.settings[i])

\* C16: describe() without an adjust_config returns a map with exactly one
\* entry per owned setting, keyed by the setting's name, whose value is the
\* setting's static description; with an adjust_config it returns the
\* registry settings the same way and, for the aggregate, one {path, values}
\* entry per path the adjust_config lists.
C16_describe_static_descriptions ==
    call.op = "describe" =>
        IF call.value = << >> THEN DescribedFlat ELSE DescribedWithContext

RECURSIVE JoinLines(_)
\* the lines put together again, a newline between each two of them
JoinLines(lines) ==
    IF Len(lines) = 0 THEN << >>
    ELSE IF Len(lines) = 1 THEN lines[1]
    ELSE lines[1] \o <<NL>> \o JoinLines(Tail(lines))

\* the script _encode_multi makes of the values of the call
EncodedText == Encoder__encode_multi(encoder, call.value)

\* encode_multi of values that encode returns, by the expected_type, the
\* script as one text or as the lines that join to it, and raises
\* EncoderConfigException for any other expected_type
TypedAsExpected ==
    (call.op = "encode_multi" /\ EncodedText.err = "") =>
        CASE call.expected_type \in {"None", "str"} ->
                 call.err = "" /\ call.out = EncodedText.out
          [] call.expected_type = "list" ->
                 /\ call.err = ""
                 /\ \A k \in 1 .. Len(call.val) :
                       \A j \in 1 .. Len(call.val[k]) : call.val[k][j] # NL
                 /\ JoinLines(call.val) = EncodedText.out
          [] OTHER -> call.err = EncoderConfigException

\* the helper was given an expected_type by the driver and by a
\* configuration that names this encoder and constructs it
BothExpectedTypes ==
    /\ call.op = "encode"
    /\ encoder.err = ""
    /\ Given(call.expected_type)
    /\ Given(enc_config.expected_type)

\* C17: encode_multi with expected_type 'str' or none returns one
\* newline-delimited string, with 'list' the sequence of lines whose join
\* with newlines is the 'str' output, and raises EncoderConfigException for
\* any other expected_type; the helper encode fails with
\* EncoderConfigException when expected_type is given by both the driver and
\* the configuration.
C17_expected_type ==
    /\ TypedAsExpected
    /\ BothExpectedTypes => call.err = EncoderConfigException

\* C18: IntToBoolValueEncoder encodes 0 as "False" and any other integer as
\* "True", and decoding what it encoded gives 0 for 0 and 1 for any other
\* integer.
C18_bool_codec_round_trip ==
    call.op = "codec" =>
        /\ call.out = IF call.value.n = 0 THEN <<"F", "a", "l", "s", "e">>
                      ELSE <<"T", "r", "u", "e">>
        /\ call.err = ""
        /\ call.val = IntVal(IF call.value.n = 0 THEN 0 ELSE 1)

----------------------------------------------------------------------------
(* Properties of encode_multi's output, checked under Spec *)

\* the value the call gives the i-th setting of the table, None when it
\* gives none
GivenValue(i) == DictGet(call.value, encoder.settings[i].name, None)

\* the text the i-th setting of the table encodes its value to: nothing when
\* it has no value
SettingText(i) ==
    IF GivenValue(i) = None THEN << >>
    ELSE EncodeSetting(encoder, encoder.settings[i], GivenValue(i)).out

RECURSIVE SettingTexts(_)
\* the texts of the settings i.. of the table, one after the other
SettingTexts(i) ==
    IF i > Len(encoder.settings) THEN << >>
    ELSE SettingText(i) \o SettingTexts(i + 1)

\* C19: the text a successful encode_multi returns is the `before` fragment,
\* then the encoded text of each owned setting that has a value that is not
\* None, in the order of the settings table, then the `after` fragment; a
\* setting the input does not hold or gives None contributes nothing.
C19_output_is_before_settings_after ==
    (call.op = "encode_multi" /\ call.err = "") =>
        call.out = enc_config.before \o SettingTexts(1) \o enc_config.after

\* encode_multi returned the script of two settings that have a value,
\* between the two fragments
C19_witness ==
    /\ call.op = "encode_multi"
    /\ call.err = ""
    /\ enc_config.before # << >>
    /\ enc_config.after # << >>
    /\ Len(encoder.settings) = 2
    /\ SettingText(1) # << >>
    /\ SettingText(2) # << >>
    /\ SettingText(1) # SettingText(2)

----------------------------------------------------------------------------
(* Properties of the names in the aggregate's records, checked under         *)
(* SpecSetting                                                               *)

\* the exceptions that report a value as invalid
ValidationErrors == {EncoderRuntimeException, SettingRuntimeException}

\* some record of the list names a setting the Encoder owns that is no
\* web-config range setting: a registry setting, or the aggregate itself
NamesOwnedOther(value) ==
    /\ value.t = "list"
    /\ \E r \in 1 .. Len(value.items) :
          /\ "values" \in DOMAIN value.items[r]
          /\ \E e \in 1 .. Len(value.items[r].values) :
                /\ Owns(encoder.settings, value.items[r].values[e].name)
                /\ Lookup(encoder.settings, value.items[r].values[e].name).kind
                       # "webconfig"

\* C20: a name in a record of the aggregate that the Encoder owns but that
\* is no web-config range setting (a registry setting, or 'WebConfig'
\* itself) makes validate_value and encode_option of the aggregate fail with
\* a validation error, and no statement is emitted.
C20_owned_other_name_is_refused ==
    (/\ call.op \in {"validate_value", "encode_option"}
     /\ call.setting = "WebConfig"
     /\ NamesOwnedOther(call.value)) =>
        /\ call.err \in ValidationErrors
        /\ call.out = << >>

----------------------------------------------------------------------------
(* Properties of the aggregate's encode_option, checked under SpecRoundTrip *)

\* a valid record list: a list of one or more records {path, values} whose
\* values name web-config range settings the Encoder owns, each as
\* {value: v} with a value the setting accepts
ValidRecordList(value) ==
    /\ value.t = "list"
    /\ Len(value.items) > 0
    /\ \A r \in 1 .. Len(value.items) :
          /\ DOMAIN value.items[r] = {"path", "values"}
          /\ \A e \in 1 .. Len(value.items[r].values) :
                /\ Owns(encoder.settings, value.items[r].values[e].name)
                /\ Lookup(encoder.settings, value.items[r].values[e].name).kind
                       = "webconfig"
                /\ IsDict(value.items[r].values[e].val)
                /\ RangeSetting_validate_value(
                       Lookup(encoder.settings, value.items[r].values[e].name),
                       DictGet(value.items[r].values[e].val, "value", None)).err = ""

RECURSIVE NamedValues(_, _, _)
\* the named values of the records r.., from entry e of record r on, each
\* with the path of its record, in the order of the records
NamedValues(items, r, e) ==
    IF r > Len(items) THEN << >>
    ELSE IF e > Len(items[r].values) THEN NamedValues(items, r + 1, 1)
    ELSE <<[path |-> items[r].path, name |-> items[r].values[e].name]>>
         \o NamedValues(items, r, e + 1)

\* the text is the import, once, and then one Set-WebConfigurationProperty
\* statement per named value, in their order, with the record's path and
\* the setting's filter and field name
ImportThenStatements(text, named) ==
    /\ Len(text) = 2 + 2 * Len(named)
    /\ SubSeq(text, 1, 2) = ImportModule
    /\ \A k \in 1 .. Len(named) :
          /\ text[2 * k + 1].cmd = "Set-WebConfigurationProperty"
          /\ text[2 * k + 1].path = named[k].path
          /\ text[2 * k + 1].filter = Lookup(encoder.settings, named[k].name).filter
          /\ text[2 * k + 1].name = NameLocator(Lookup(encoder.settings, named[k].name))
          /\ text[2 * k + 2] = NL

\* C21: for every valid record list encode_option of the aggregate returns
\* the module import exactly once, at the start, followed by exactly one
\* Set-WebConfigurationProperty statement per named value of each record, in
\* record order, each with the record's path, the setting's filter and its
\* name_override (else its name); a None value yields the empty text, with
\* no import.
C21_import_then_one_statement_per_value ==
    (call.op = "encode_option" /\ call.setting = "WebConfig") =>
        /\ call.value = None => (call.err = "" /\ call.out = << >>)
        /\ ValidRecordList(call.value) =>
              /\ call.err = ""
              /\ ImportThenStatements(call.out, NamedValues(call.value.items, 1, 1))

\* encode_option returned the statements of two records of different paths,
\* the first with two named values
C21_witness ==
    /\ call.op = "encode_option"
    /\ call.setting = "WebConfig"
    /\ ValidRecordList(call.value)
    /\ Len(call.value.items) = 2
    /\ Len(call.value.items[1].values) = 2
    /\ Len(call.value.items[2].values) = 1
    /\ call.value.items[1].path # call.value.items[2].path
    /\ call.err = ""
    /\ Len(call.out) = 8

----------------------------------------------------------------------------
(* Properties of decoding raw values, checked under SpecSetting *)

\* the codec cannot transcode the raw value: both codecs decode with int()
Unparsable(raw) == PyInt(raw).err # ""

\* the last call was decode_option on data that holds, for the setting, a
\* raw value its codec cannot transcode
DecodedUnparsable ==
    /\ call.op = "decode_option"
    /\ CallKind \in {"registry", "webconfig"}
    /\ call.data = RawDataFor(Lookup(encoder.settings, call.setting), call.value)
    /\ Unparsable(call.value)

\* the last call was decode_multi on data that holds a raw value its codec
\* cannot transcode for a setting the Encoder decodes
DecodedMultiUnparsable ==
    /\ call.op = "decode_multi"
    /\ \/ /\ Owns(encoder.settings, "UriEnableCache")
          /\ Unparsable(call.data.reg.d["UriEnableCache"])
       \/ /\ Owns(encoder.settings, "WebConfig")
          /\ Owns(encoder.settings, "WebConfigCacheEnabled")
          /\ Unparsable(call.data.wc.paths[1].filters[1].fields["enabled"])

\* C22: whenever the raw value located for a setting cannot be transcoded by
\* its codec (non-numeric text, a null, a nested map or list), decode_option
\* of a registry setting and of a web-config setting fail with
\* SettingRuntimeException, and no other kind of failure escapes
\* decode_multi for such a value.
C22_unparsable_is_setting_runtime_error ==
    (DecodedUnparsable \/ DecodedMultiUnparsable)
        => call.err = SettingRuntimeException

----------------------------------------------------------------------------
(* Properties of malformed records, checked under SpecSetting *)

\* a record without 'path', without 'values', or with a value given as a
\* bare primitive and not as {value: v}
Malformed(record) ==
    \/ "path" \notin DOMAIN record
    \/ "values" \notin DOMAIN record
    \/ \E e \in 1 .. Len(record.values) : ~IsDict(record.values[e].val)

\* the last call was encode_multi with a malformed record for the aggregate
EncodedMalformed ==
    /\ call.op = "encode_multi"
    /\ \E r \in 1 .. Len(call.value["WebConfig"].items) :
          Malformed(call.value["WebConfig"].items[r])

\* C23: a malformed aggregate record offered to encode_multi (one without
\* 'path', one without 'values', or a nested value given as a bare
\* primitive) always fails with EncoderRuntimeException, never with another
\* kind of failure, and no output is produced.
C23_malformed_record_is_encoder_runtime_error ==
    EncodedMalformed
        => /\ call.err = EncoderRuntimeException
           /\ call.out = << >>

----------------------------------------------------------------------------
(* Properties of a sequence of calls, checked under SpecCalls *)

\* the keys of the settings table in their order, and every setting's min,
\* max, step and default
SettingsTable(self) ==
    [i \in 1 .. Len(self.settings) |->
        [name |-> self.settings[i].name, min |-> self.settings[i].min,
         max |-> self.settings[i].max, step |-> self.settings[i].step,
         default |-> self.settings[i].default]]

\* the outcome of the last call
Outcome == [err |-> call.err, out |-> call.out, val |-> call.val]

\* the outcome the last call has on the Encoder self
OutcomeOn(self) ==
    LET c == Call(call.op, "", "", call.value, call.data, NoSystem, "", << >>, << >>)
    IN  CASE call.op = "describe" ->
                 Returned(c, Encoder_describe(self, call.value))
          [] call.op = "encode_multi" ->
                 Returned(c, Encoder__encode_multi(self, call.value))
          [] call.op = "decode_multi" ->
                 Returned(c, Encoder_decode_multi(self, call.data))
          [] call.op = "encode_describe" ->
                 [c EXCEPT !.out = Encoder_encode_describe(self, call.value)]

----------------------------------------------------------------------------
(* Properties of the helper's values map, checked under SpecDriver *)

\* the helper was given a configuration that names this encoder and
\* constructs it
HelperConstructed == call.op = "encode" /\ encoder.err = ""

\* what describe gives the helper
HelperDescribed == Encoder_describe(encoder, call.adjust_config)

\* C25: the values map the helper builds from the keys of describe, with or
\* without an adjust_config, holds only names of owned settings: for every
\* valid configuration describe succeeds, and encode_multi of that map does
\* not fail with EncoderRuntimeException for keys no setting has claimed.
C25_described_keys_are_owned_names ==
    HelperConstructed =>
        /\ HelperDescribed.err = ""
        /\ DOMAIN HelperDescribed.val \subseteq SettingNames(encoder)
        /\ ~(/\ call.err = EncoderRuntimeException
             /\ call.names \ SettingNames(encoder) # {})

====
